---- MODULE Spec2Model ----
(***************************************************************************)
(* Model of the storage core of rmdb: the LRU replacer                     *)
(* (src/replacer/lru_replacer.cpp), the buffer pool manager                *)
(* (src/storage/buffer_pool_manager.cpp), the record file handle           *)
(* (src/record/rm_file_handle.cpp) and the record scan                     *)
(* (src/record/rm_scan.cpp).                                               *)
(*                                                                         *)
(* Several drivers share the state: "lru" calls the replacer directly,     *)
(* "bp" calls the buffer pool manager, "threads" calls it from several     *)
(* threads, "rm" and "inserts" call the record file handle on top of the   *)
(* buffer pool.  Every public method is one action (each takes the         *)
(* object's latch for its whole body), except where a driver says          *)
(* otherwise.                                                              *)
(***************************************************************************)
EXTENDS Integers, Sequences, FiniteSets, TLC

VARIABLES
    harness,        \* the driver: "lru", "replacerThreads", "bp", "threads", "rm" or "inserts"
    LRUlist_,       \* LRUReplacer::LRUlist_, head (index 1) is the MRU end
    LRUhash_,       \* LRUReplacer::LRUhash_, frame_id -> node of LRUlist_
    pages_,         \* BufferPoolManager::pages_, frame_id -> Page
    page_table_,    \* BufferPoolManager::page_table_, PageId -> frame_id
    free_list_,     \* BufferPoolManager::free_list_
    disk,           \* the Disk Manager's pages, PageId -> page image
    next_page_no,   \* the Disk Manager's allocation counter of each file
    file_hdr_,      \* RmFileHandle::file_hdr_
    ret,            \* the last call: its name, arguments and result
    unpinOrder,     \* history: the evictable frames, earliest unpinned first
    inserted,       \* history: Rid -> the buf insert_record(buf) stored there
    everFull,       \* history: the data pages that have been full after some call
    scan,           \* the RmScan cursor: its rid_ and the rid() values it has shown
    latch_,         \* latch_ of the object the threads call: the thread holding
                    \* it, 0 for none
    calls,          \* thread -> the call it is in the middle of
    pinned,         \* history: PageId -> fetch_page/new_page successes less
                    \* unpin_page successes since the page was last bound
    written         \* history: PageId -> the contents a pin holder last wrote
                    \* to the page, and whether it has unpinned it dirty since

vars == <<harness, LRUlist_, LRUhash_, pages_, page_table_, free_list_, disk,
          next_page_no, file_hdr_, ret, unpinOrder, inserted, everFull, scan,
          latch_, calls, pinned, written>>

\* the state of the threads calling the buffer pool
mtVars == <<latch_, calls, pinned>>

bpVars == <<pages_, page_table_, free_list_, LRUlist_, LRUhash_, disk, next_page_no>>

-----------------------------------------------------------------------------
(* Bounds of the model *)

\* number of frames the replacer driver uses (LRUReplacer's num_pages)
ReplacerFrames == 4
\* BufferPoolManager pool_size
PoolSize == 2
\* pages the Disk Manager holds at most, over all files of the buffer pool driver
MaxDiskPages == 3
\* largest pin count the driver lets a page reach
MaxPin == 2
\* record / page payload values are 1..MaxVal (0 is zeroed memory)
MaxVal == 1

\* threads calling the buffer pool manager
NumThreads == 2

(* Program constants *)
INVALID_PAGE_ID == -1
RM_NO_PAGE == -1
RM_FILE_HDR_PAGE == 0
RM_FIRST_RECORD_PAGE == 1

\* the files the buffer pool driver opens
Fds == {0, 1}
\* the file the record driver opens
fd_ == 0

NoFrame == -1
Threads == 1..NumThreads
NoThread == 0
NoPageId == [fd |-> -1, page_no |-> INVALID_PAGE_ID]

-----------------------------------------------------------------------------
(* Sequences and maps *)

Range(s) == {s[i] : i \in DOMAIN s}

\* std::list::erase of the first node holding v
RemoveFirst(s, v) ==
    IF v \notin Range(s) THEN s
    ELSE LET i == CHOOSE k \in DOMAIN s : s[k] = v /\ \A j \in 1..(k - 1) : s[j] # v
         IN SubSeq(s, 1, i - 1) \o SubSeq(s, i + 1, Len(s))

MapErase(m, k) == [x \in (DOMAIN m) \ {k} |-> m[x]]

MapPut(m, k, v) == [x \in (DOMAIN m) \cup {k} |-> IF x = k THEN v ELSE m[x]]

\* a thread that is not inside a method
NoCall == [page_id |-> NoPageId, victim_frame_id |-> NoFrame]

EmptyMap == [x \in {} |-> 0]

\* history update: the frame becomes the latest evictable one
OrderAdd(o, f) == IF f \in Range(o) THEN o ELSE Append(o, f)

OrderDel(o, f) == RemoveFirst(o, f)

\* the record of a call; evicted is the PageId a fetch_page / new_page unbound
CallEv(op, page_id, is_dirty, ok, frame, evicted) ==
    [op |-> op, page_id |-> page_id, is_dirty |-> is_dirty, ok |-> ok, frame |-> frame,
     evicted |-> evicted]

Call(op, page_id, is_dirty, ok, frame) == CallEv(op, page_id, is_dirty, ok, frame, NoPageId)

-----------------------------------------------------------------------------
(* LRUReplacer.  A node of LRUlist_ is identified by the frame_id it holds, *)
(* so LRUhash_[f] is the frame_id held by the node the iterator points to.  *)

\* mutant: the victim is taken from the head (MRU end)
LRU_victim_front(list, hash) ==
    IF list = <<>>
    THEN [ok |-> FALSE, frame_id |-> NoFrame, list |-> list, hash |-> hash]
    ELSE LET v == list[1]
         IN [ok |-> TRUE, frame_id |-> v,
             list |-> Tail(list),
             hash |-> MapErase(hash, v)]

LRU_victim(list, hash) ==
    IF list = <<>>
    THEN [ok |-> FALSE, frame_id |-> NoFrame, list |-> list, hash |-> hash]
    ELSE LET v == list[Len(list)]
         IN [ok |-> TRUE, frame_id |-> v,
             list |-> SubSeq(list, 1, Len(list) - 1),
             hash |-> MapErase(hash, v)]

LRU_pin(list, hash, frame_id) ==
    IF frame_id \in DOMAIN hash
    THEN [list |-> RemoveFirst(list, hash[frame_id]), hash |-> MapErase(hash, frame_id)]
    ELSE [list |-> list, hash |-> hash]

\* mutant: no test for a frame that is already in the list
LRU_unpin_noCheck(list, hash, frame_id) ==
    [list |-> <<frame_id>> \o list, hash |-> MapPut(hash, frame_id, frame_id)]

LRU_unpin(list, hash, frame_id) ==
    IF frame_id \in DOMAIN hash
    THEN [list |-> list, hash |-> hash]
    ELSE [list |-> <<frame_id>> \o list, hash |-> MapPut(hash, frame_id, frame_id)]

LRU_Size(list) == Len(list)

-----------------------------------------------------------------------------
(* Pages.  A page image is the RmPageHdr, the slot bitmap and the slots;    *)
(* Page::reset_memory zeroes all of it.                                     *)

\* the record driver's files have num_records_per_page in 1..SlotsPerPage
SlotsPerPage == 2

\* slots a page has room for
PageRoom == 4

Slots == 0..(PageRoom - 1)
Vals == 0..MaxVal
Frames == 0..(PoolSize - 1)
PageNos == 0..(MaxDiskPages - 2)
PageIds == [fd : Fds, page_no : PageNos]

ZeroPage ==
    [num_records |-> 0, next_free_page_no |-> 0,
     bitmap |-> [i \in Slots |-> FALSE], slots |-> [i \in Slots |-> 0]]

\* a Page of pages_ before its first use
NewPage == [id |-> NoPageId, pin_count |-> 0, is_dirty |-> FALSE, data |-> ZeroPage]

IsBound(pg) == pg.id.page_no # INVALID_PAGE_ID

-----------------------------------------------------------------------------
(* Disk Manager *)

disk_write_page(dsk, page_id, data) == MapPut(dsk, page_id, data)

disk_read_page(dsk, page_id) == dsk[page_id]

-----------------------------------------------------------------------------
(* BufferPoolManager.  st is the manager's state                            *)
(* [pages, page_table, free_list, list, hash, disk].                        *)

BpState == [pages |-> pages_, page_table |-> page_table_, free_list |-> free_list_,
            list |-> LRUlist_, hash |-> LRUhash_, disk |-> disk]

\* mutant: the replacer is never asked
find_victim_page_freeOnly(st) ==
    IF st.free_list # <<>>
    THEN [ok |-> TRUE, frame_id |-> Head(st.free_list),
          st |-> [st EXCEPT !.free_list = Tail(st.free_list)]]
    ELSE [ok |-> FALSE, frame_id |-> NoFrame, st |-> st]

find_victim_page(st) ==
    IF st.free_list # <<>>
    THEN [ok |-> TRUE, frame_id |-> Head(st.free_list),
          st |-> [st EXCEPT !.free_list = Tail(st.free_list)]]
    ELSE LET v == LRU_victim(st.list, st.hash)
         IN [ok |-> v.ok, frame_id |-> v.frame_id,
             st |-> [st EXCEPT !.list = v.list, !.hash = v.hash]]

\* mutant: the frame is rebound without writing its dirty page to disk
update_page_noWriteBack(st, page, new_page_id, new_frame_id) ==
    LET old_page_id == st.pages[page].id
        s1 == IF old_page_id.page_no # INVALID_PAGE_ID
              THEN [st EXCEPT
                      !.pages[page].is_dirty = FALSE,
                      !.page_table = MapErase(@, old_page_id)]
              ELSE st
    IN IF new_page_id.page_no # INVALID_PAGE_ID
       THEN [s1 EXCEPT !.page_table = MapPut(@, new_page_id, new_frame_id),
                       !.pages[page].id = new_page_id,
                       !.pages[page].data = ZeroPage]
       ELSE [s1 EXCEPT !.pages[page] = [id |-> new_page_id, pin_count |-> 0,
                                        is_dirty |-> FALSE, data |-> ZeroPage]]

update_page(st, page, new_page_id, new_frame_id) ==
    LET old_page_id == st.pages[page].id
        s1 == IF old_page_id.page_no # INVALID_PAGE_ID
              THEN [st EXCEPT
                      !.disk = IF st.pages[page].is_dirty
                               THEN disk_write_page(st.disk, old_page_id, st.pages[page].data)
                               ELSE @,
                      !.pages[page].is_dirty = FALSE,
                      !.page_table = MapErase(@, old_page_id)]
              ELSE st
    IN IF new_page_id.page_no # INVALID_PAGE_ID
       THEN [s1 EXCEPT !.page_table = MapPut(@, new_page_id, new_frame_id),
                       !.pages[page].id = new_page_id,
                       !.pages[page].data = ZeroPage]
       ELSE [s1 EXCEPT !.pages[page] = [id |-> new_page_id, pin_count |-> 0,
                                        is_dirty |-> FALSE, data |-> ZeroPage]]

\* mutant: a page table hit does not take the frame out of the replacer
bp_fetch_page_noPin(st, page_id) ==
    IF page_id \in DOMAIN st.page_table
    THEN LET frame_id == st.page_table[page_id]
         IN [ok |-> TRUE, frame_id |-> frame_id,
             st |-> [st EXCEPT !.pages[frame_id].pin_count = @ + 1]]
    ELSE LET fv == find_victim_page(st)
         IN IF ~fv.ok
            THEN [ok |-> FALSE, frame_id |-> NoFrame, st |-> st]
            ELSE LET victim_frame_id == fv.frame_id
                     s1 == update_page(fv.st, victim_frame_id, page_id, victim_frame_id)
                     s2 == [s1 EXCEPT
                              !.pages[victim_frame_id].data = disk_read_page(s1.disk, page_id),
                              !.pages[victim_frame_id].pin_count = 1,
                              !.pages[victim_frame_id].is_dirty = FALSE]
                     r == LRU_pin(s2.list, s2.hash, victim_frame_id)
                 IN [ok |-> TRUE, frame_id |-> victim_frame_id,
                     st |-> [s2 EXCEPT !.list = r.list, !.hash = r.hash]]

\* fetch_page: [ok, frame_id, st]; ok = FALSE is the nullptr result
bp_fetch_page(st, page_id) ==
    IF page_id \in DOMAIN st.page_table
    THEN LET frame_id == st.page_table[page_id]
             r == LRU_pin(st.list, st.hash, frame_id)
         IN [ok |-> TRUE, frame_id |-> frame_id,
             st |-> [st EXCEPT !.pages[frame_id].pin_count = @ + 1,
                               !.list = r.list, !.hash = r.hash]]
    ELSE LET fv == find_victim_page(st)
         IN IF ~fv.ok
            THEN [ok |-> FALSE, frame_id |-> NoFrame, st |-> st]
            ELSE LET victim_frame_id == fv.frame_id
                     s1 == update_page(fv.st, victim_frame_id, page_id, victim_frame_id)
                     s2 == [s1 EXCEPT
                              !.pages[victim_frame_id].data = disk_read_page(s1.disk, page_id),
                              !.pages[victim_frame_id].pin_count = 1,
                              !.pages[victim_frame_id].is_dirty = FALSE]
                     r == LRU_pin(s2.list, s2.hash, victim_frame_id)
                 IN [ok |-> TRUE, frame_id |-> victim_frame_id,
                     st |-> [s2 EXCEPT !.list = r.list, !.hash = r.hash]]

\* fetch_page from update_page on (lines 111-130), victim_frame_id found
fetch_page_load(st, victim_frame_id, page_id) ==
    LET s1 == update_page(st, victim_frame_id, page_id, victim_frame_id)
        s2 == [s1 EXCEPT
                 !.pages[victim_frame_id].data = disk_read_page(s1.disk, page_id),
                 !.pages[victim_frame_id].pin_count = 1,
                 !.pages[victim_frame_id].is_dirty = FALSE]
        r == LRU_pin(s2.list, s2.hash, victim_frame_id)
    IN [s2 EXCEPT !.list = r.list, !.hash = r.hash]

\* mutant: the method body is entered without waiting for latch_
scoped_lock_noWait(latch) == TRUE

\* std::scoped_lock lock{latch_}: the caller goes on when no thread holds
\* latch_
scoped_lock(latch) == latch = NoThread

\* mutant: the test for an unpinned page is pin_count < 0
bp_unpin_page_negCheck(st, page_id, is_dirty) ==
    IF page_id \notin DOMAIN st.page_table
    THEN [ok |-> FALSE, st |-> st]
    ELSE LET frame_id == st.page_table[page_id]
         IN IF st.pages[frame_id].pin_count < 0
            THEN [ok |-> FALSE, st |-> st]
            ELSE LET s1 == [st EXCEPT !.pages[frame_id].pin_count = @ - 1,
                                      !.pages[frame_id].is_dirty = IF is_dirty THEN TRUE ELSE @]
                     r == IF s1.pages[frame_id].pin_count = 0
                          THEN LRU_unpin(s1.list, s1.hash, frame_id)
                          ELSE [list |-> s1.list, hash |-> s1.hash]
                 IN [ok |-> TRUE, st |-> [s1 EXCEPT !.list = r.list, !.hash = r.hash]]

\* mutant: is_dirty_ is assigned the argument
bp_unpin_page_assignDirty(st, page_id, is_dirty) ==
    IF page_id \notin DOMAIN st.page_table
    THEN [ok |-> FALSE, st |-> st]
    ELSE LET frame_id == st.page_table[page_id]
         IN IF st.pages[frame_id].pin_count <= 0
            THEN [ok |-> FALSE, st |-> st]
            ELSE LET s1 == [st EXCEPT !.pages[frame_id].pin_count = @ - 1,
                                      !.pages[frame_id].is_dirty = is_dirty]
                     r == IF s1.pages[frame_id].pin_count = 0
                          THEN LRU_unpin(s1.list, s1.hash, frame_id)
                          ELSE [list |-> s1.list, hash |-> s1.hash]
                 IN [ok |-> TRUE, st |-> [s1 EXCEPT !.list = r.list, !.hash = r.hash]]

\* mutant: is_dirty_ is left as it was
bp_unpin_page_neverDirty(st, page_id, is_dirty) ==
    IF page_id \notin DOMAIN st.page_table
    THEN [ok |-> FALSE, st |-> st]
    ELSE LET frame_id == st.page_table[page_id]
         IN IF st.pages[frame_id].pin_count <= 0
            THEN [ok |-> FALSE, st |-> st]
            ELSE LET s1 == [st EXCEPT !.pages[frame_id].pin_count = @ - 1]
                     r == IF s1.pages[frame_id].pin_count = 0
                          THEN LRU_unpin(s1.list, s1.hash, frame_id)
                          ELSE [list |-> s1.list, hash |-> s1.hash]
                 IN [ok |-> TRUE, st |-> [s1 EXCEPT !.list = r.list, !.hash = r.hash]]

\* unpin_page: [ok, st]
bp_unpin_page(st, page_id, is_dirty) ==
    IF page_id \notin DOMAIN st.page_table
    THEN [ok |-> FALSE, st |-> st]
    ELSE LET frame_id == st.page_table[page_id]
         IN IF st.pages[frame_id].pin_count <= 0
            THEN [ok |-> FALSE, st |-> st]
            ELSE LET s1 == [st EXCEPT !.pages[frame_id].pin_count = @ - 1,
                                      !.pages[frame_id].is_dirty = IF is_dirty THEN TRUE ELSE @]
                     r == IF s1.pages[frame_id].pin_count = 0
                          THEN LRU_unpin(s1.list, s1.hash, frame_id)
                          ELSE [list |-> s1.list, hash |-> s1.hash]
                 IN [ok |-> TRUE, st |-> [s1 EXCEPT !.list = r.list, !.hash = r.hash]]

\* flush_page: [ok, st]
bp_flush_page(st, page_id) ==
    IF page_id \notin DOMAIN st.page_table
    THEN [ok |-> FALSE, st |-> st]
    ELSE LET frame_id == st.page_table[page_id]
             pg == st.pages[frame_id]
         IN [ok |-> TRUE,
             st |-> [st EXCEPT !.disk = disk_write_page(@, pg.id, pg.data),
                               !.pages[frame_id].is_dirty = FALSE]]

\* new_page, allocate_page returning new_disk_page_no: [ok, frame_id, st]
bp_new_page(st, fd, new_disk_page_no) ==
    LET fv == find_victim_page(st)
    IN IF ~fv.ok
       THEN [ok |-> FALSE, frame_id |-> NoFrame, st |-> st]
       ELSE IF new_disk_page_no = INVALID_PAGE_ID
       THEN [ok |-> FALSE, frame_id |-> NoFrame, st |-> fv.st]
       ELSE LET victim_frame_id == fv.frame_id
                page_id == [fd |-> fd, page_no |-> new_disk_page_no]
                s1 == update_page(fv.st, victim_frame_id, page_id, victim_frame_id)
                s2 == [s1 EXCEPT !.pages[victim_frame_id].pin_count = 1,
                                 !.pages[victim_frame_id].is_dirty = FALSE]
                r == LRU_pin(s2.list, s2.hash, victim_frame_id)
            IN [ok |-> TRUE, frame_id |-> victim_frame_id,
                st |-> [s2 EXCEPT !.list = r.list, !.hash = r.hash]]

\* mutant: the frame is not taken out of the replacer
bp_delete_page_keepsReplacer(st, page_id) ==
    IF page_id \notin DOMAIN st.page_table
    THEN [ok |-> TRUE, st |-> st]
    ELSE LET frame_id == st.page_table[page_id]
             pg == st.pages[frame_id]
         IN IF pg.pin_count > 0
            THEN [ok |-> FALSE, st |-> st]
            ELSE [ok |-> TRUE,
                  st |-> [st EXCEPT
                            !.disk = IF pg.is_dirty
                                     THEN disk_write_page(@, pg.id, pg.data) ELSE @,
                            !.page_table = MapErase(@, page_id),
                            !.pages[frame_id] =
                                [id |-> [fd |-> pg.id.fd, page_no |-> INVALID_PAGE_ID],
                                 pin_count |-> 0, is_dirty |-> FALSE, data |-> ZeroPage],
                            !.free_list = Append(@, frame_id)]]

\* mutant: a dirty page is dropped without being written back
bp_delete_page_noWriteBack(st, page_id) ==
    IF page_id \notin DOMAIN st.page_table
    THEN [ok |-> TRUE, st |-> st]
    ELSE LET frame_id == st.page_table[page_id]
             pg == st.pages[frame_id]
         IN IF pg.pin_count > 0
            THEN [ok |-> FALSE, st |-> st]
            ELSE LET r == LRU_pin(st.list, st.hash, frame_id)
                 IN [ok |-> TRUE,
                     st |-> [st EXCEPT
                               !.page_table = MapErase(@, page_id),
                               !.pages[frame_id] =
                                   [id |-> [fd |-> pg.id.fd, page_no |-> INVALID_PAGE_ID],
                                    pin_count |-> 0, is_dirty |-> FALSE, data |-> ZeroPage],
                               !.list = r.list, !.hash = r.hash,
                               !.free_list = Append(@, frame_id)]]

\* delete_page: [ok, st]
bp_delete_page(st, page_id) ==
    IF page_id \notin DOMAIN st.page_table
    THEN [ok |-> TRUE, st |-> st]
    ELSE LET frame_id == st.page_table[page_id]
             pg == st.pages[frame_id]
         IN IF pg.pin_count > 0
            THEN [ok |-> FALSE, st |-> st]
            ELSE LET r == LRU_pin(st.list, st.hash, frame_id)
                 IN [ok |-> TRUE,
                     st |-> [st EXCEPT
                               !.disk = IF pg.is_dirty
                                        THEN disk_write_page(@, pg.id, pg.data) ELSE @,
                               !.page_table = MapErase(@, page_id),
                               !.pages[frame_id] =
                                   [id |-> [fd |-> pg.id.fd, page_no |-> INVALID_PAGE_ID],
                                    pin_count |-> 0, is_dirty |-> FALSE, data |-> ZeroPage],
                               !.list = r.list, !.hash = r.hash,
                               !.free_list = Append(@, frame_id)]]

\* flush_all_pages: the state after the loop over page_table_
bp_flush_all_pages(st, fd) ==
    LET hits == {pid \in DOMAIN st.page_table :
                    pid.fd = fd /\ st.pages[st.page_table[pid]].is_dirty}
        hitFrames == {st.page_table[pid] : pid \in hits}
    IN [st EXCEPT
          !.disk = [p \in (DOMAIN st.disk) \cup {st.pages[f].id : f \in hitFrames} |->
                      IF \E f \in hitFrames : st.pages[f].id = p
                      THEN st.pages[CHOOSE f \in hitFrames : st.pages[f].id = p].data
                      ELSE st.disk[p]],
          !.pages = [f \in DOMAIN st.pages |->
                       IF f \in hitFrames THEN [st.pages[f] EXCEPT !.is_dirty = FALSE]
                       ELSE st.pages[f]]]

Install(st) ==
    /\ pages_' = st.pages
    /\ page_table_' = st.page_table
    /\ free_list_' = st.free_list
    /\ LRUlist_' = st.list
    /\ LRUhash_' = st.hash
    /\ disk' = st.disk

-----------------------------------------------------------------------------
(* Initial states *)

InitCommon ==
    /\ LRUlist_ = <<>>
    /\ LRUhash_ = EmptyMap
    /\ ret = Call("init", NoPageId, FALSE, TRUE, NoFrame)
    /\ unpinOrder = <<>>
    /\ inserted = EmptyMap
    /\ everFull = {}
    /\ scan = [open |-> FALSE, rid_ |-> [page_no |-> -1, slot_no |-> -1], visited |-> <<>>]
    /\ latch_ = NoThread
    /\ calls = [t \in Threads |-> NoCall]
    /\ pinned = [p \in PageIds |-> 0]
    /\ written = EmptyMap

\* a replacer on its own: no pool, no file
InitLRU ==
    /\ harness = "lru"
    /\ InitCommon
    /\ pages_ = EmptyMap
    /\ page_table_ = EmptyMap
    /\ free_list_ = <<>>
    /\ disk = EmptyMap
    /\ next_page_no = EmptyMap
    /\ file_hdr_ = EmptyMap

\* BufferPoolManager's constructor: every frame on the free list, in order;
\* each file holds one zeroed page
InitBP ==
    /\ harness = "bp"
    /\ InitCommon
    /\ pages_ = [f \in Frames |-> NewPage]
    /\ page_table_ = EmptyMap
    /\ free_list_ = [i \in 1..PoolSize |-> i - 1]
    /\ disk = [p \in {q \in PageIds : q.page_no = 0} |-> ZeroPage]
    /\ next_page_no = [fd \in Fds |-> 1]
    /\ file_hdr_ = EmptyMap

-----------------------------------------------------------------------------
(* The replacer driver *)

Replacer_victim ==
    /\ harness = "lru"
    /\ LET r == LRU_victim(LRUlist_, LRUhash_)
       IN /\ LRUlist_' = r.list
          /\ LRUhash_' = r.hash
          /\ ret' = Call("victim", NoPageId, FALSE, r.ok, r.frame_id)
          /\ unpinOrder' = IF r.ok THEN OrderDel(unpinOrder, r.frame_id) ELSE unpinOrder
    /\ UNCHANGED <<harness, written, pages_, page_table_, free_list_, disk, next_page_no,
                   file_hdr_, inserted, everFull, scan, mtVars>>

Replacer_pin(frame_id) ==
    /\ harness = "lru"
    /\ LET r == LRU_pin(LRUlist_, LRUhash_, frame_id)
       IN /\ LRUlist_' = r.list
          /\ LRUhash_' = r.hash
          /\ ret' = Call("pin", NoPageId, FALSE, TRUE, frame_id)
          /\ unpinOrder' = OrderDel(unpinOrder, frame_id)
    /\ UNCHANGED <<harness, written, pages_, page_table_, free_list_, disk, next_page_no,
                   file_hdr_, inserted, everFull, scan, mtVars>>

Replacer_unpin(frame_id) ==
    /\ harness = "lru"
    /\ LET r == LRU_unpin(LRUlist_, LRUhash_, frame_id)
       IN /\ LRUlist_' = r.list
          /\ LRUhash_' = r.hash
          /\ ret' = Call("unpin", NoPageId, FALSE, TRUE, frame_id)
          /\ unpinOrder' = OrderAdd(unpinOrder, frame_id)
    /\ UNCHANGED <<harness, written, pages_, page_table_, free_list_, disk, next_page_no,
                   file_hdr_, inserted, everFull, scan, mtVars>>

\* Size(): the result is returned in ret.frame
Replacer_Size ==
    /\ harness = "lru"
    /\ ret' = Call("Size", NoPageId, FALSE, TRUE, LRU_Size(LRUlist_))
    /\ UNCHANGED <<harness, written, LRUlist_, LRUhash_, pages_, page_table_, free_list_, disk,
                   next_page_no, file_hdr_, unpinOrder, inserted, everFull, scan, mtVars>>

NextLRU ==
    \/ Replacer_victim
    \/ \E f \in 0..(ReplacerFrames - 1) : Replacer_pin(f)
    \/ \E f \in 0..(ReplacerFrames - 1) : Replacer_unpin(f)
    \/ Replacer_Size

SpecLRU == InitLRU /\ [][NextLRU]_vars

-----------------------------------------------------------------------------
(* Threads calling the replacer.  victim, pin and unpin run from their      *)
(* scoped_lock to their return, in two steps when they change the list and  *)
(* the map (one step for each container); Size has no scoped_lock.          *)

InitReplacerThreads ==
    /\ harness = "replacerThreads"
    /\ InitCommon
    /\ pages_ = EmptyMap
    /\ page_table_ = EmptyMap
    /\ free_list_ = <<>>
    /\ disk = EmptyMap
    /\ next_page_no = EmptyMap
    /\ file_hdr_ = EmptyMap

\* thread t is about to call a method that takes latch_
Locking(t) ==
    /\ harness = "replacerThreads"
    /\ calls[t] = NoCall
    /\ scoped_lock(latch_)

\* the method goes on to its second container under latch_
Replacer_holds(t, op, frame_id) ==
    /\ latch_' = t
    /\ calls' = [calls EXCEPT ![t] = [op |-> op, frame_id |-> frame_id]]

\* the method returns, releasing latch_
Replacer_returns(t) ==
    /\ latch_' = NoThread
    /\ calls' = [calls EXCEPT ![t] = NoCall]

ReplacerRest == <<harness, written, pages_, page_table_, free_list_, disk, next_page_no, file_hdr_,
                  unpinOrder, inserted, everFull, scan, pinned>>

\* victim to LRUhash_.erase (lines 25-39)
thread_victim(t) ==
    /\ Locking(t)
    /\ IF LRUlist_ = <<>>
       THEN /\ ret' = Call("victim", NoPageId, FALSE, FALSE, NoFrame)
            /\ UNCHANGED <<LRUlist_, LRUhash_, latch_, calls>>
       ELSE /\ LRUhash_' = MapErase(LRUhash_, LRUlist_[Len(LRUlist_)])
            /\ Replacer_holds(t, "victim", LRUlist_[Len(LRUlist_)])
            /\ ret' = Call("victim_erase", NoPageId, FALSE, TRUE, LRUlist_[Len(LRUlist_)])
            /\ UNCHANGED LRUlist_
    /\ UNCHANGED ReplacerRest

\* pin to LRUlist_.erase (lines 52-58)
thread_pin(t, frame_id) ==
    /\ Locking(t)
    /\ IF frame_id \in DOMAIN LRUhash_
       THEN /\ LRUlist_' = RemoveFirst(LRUlist_, LRUhash_[frame_id])
            /\ Replacer_holds(t, "pin", frame_id)
            /\ ret' = Call("pin_erase", NoPageId, FALSE, TRUE, frame_id)
            /\ UNCHANGED LRUhash_
       ELSE /\ ret' = Call("pin", NoPageId, FALSE, TRUE, frame_id)
            /\ UNCHANGED <<LRUlist_, LRUhash_, latch_, calls>>
    /\ UNCHANGED ReplacerRest

\* unpin to LRUlist_.push_front (lines 68-94)
thread_unpin(t, frame_id) ==
    /\ Locking(t)
    /\ IF frame_id \in DOMAIN LRUhash_
       THEN /\ ret' = Call("unpin", NoPageId, FALSE, TRUE, frame_id)
            /\ UNCHANGED <<LRUlist_, LRUhash_, latch_, calls>>
       ELSE /\ LRUlist_' = <<frame_id>> \o LRUlist_
            /\ Replacer_holds(t, "unpin", frame_id)
            /\ ret' = Call("unpin_push", NoPageId, FALSE, TRUE, frame_id)
            /\ UNCHANGED LRUhash_
    /\ UNCHANGED ReplacerRest

\* the rest of victim (pop_back, line 42), pin (LRUhash_.erase, line 59) or
\* unpin (LRUhash_[frame_id] = begin(), line 96), and the return
thread_returns(t) ==
    /\ harness = "replacerThreads"
    /\ calls[t] # NoCall
    /\ LET c == calls[t]
       IN /\ LRUlist_' = IF c.op = "victim" THEN SubSeq(LRUlist_, 1, Len(LRUlist_) - 1)
                         ELSE LRUlist_
          /\ LRUhash_' = IF c.op = "pin" THEN MapErase(LRUhash_, c.frame_id)
                         ELSE IF c.op = "unpin" THEN MapPut(LRUhash_, c.frame_id, c.frame_id)
                         ELSE LRUhash_
          /\ ret' = Call(c.op, NoPageId, FALSE, TRUE, c.frame_id)
    /\ Replacer_returns(t)
    /\ UNCHANGED ReplacerRest

\* what LRUlist_.size() can give a thread that reads it with no latch: the
\* size of the list, or the size before or after the change another thread
\* is making
RacySizes(list, latch) ==
    IF latch = NoThread
    THEN {Len(list)}
    ELSE {n \in {Len(list) - 1, Len(list), Len(list) + 1} : n >= 0}

\* Size (line 101): the result is returned in ret.frame
thread_Size(t, n) ==
    /\ harness = "replacerThreads"
    /\ calls[t] = NoCall
    /\ n \in RacySizes(LRUlist_, latch_)
    /\ ret' = Call("Size", NoPageId, FALSE, TRUE, n)
    /\ UNCHANGED <<LRUlist_, LRUhash_, latch_, calls>>
    /\ UNCHANGED ReplacerRest

NextReplacerThreads ==
    \E t \in Threads :
        \/ thread_victim(t)
        \/ \E f \in 0..(ReplacerFrames - 1) : thread_pin(t, f)
        \/ \E f \in 0..(ReplacerFrames - 1) : thread_unpin(t, f)
        \/ thread_returns(t)
        \/ \E n \in 0..(ReplacerFrames + 1) : thread_Size(t, n)

SpecReplacerThreads == InitReplacerThreads /\ [][NextReplacerThreads]_vars

-----------------------------------------------------------------------------
(* The buffer pool driver: callers of BufferPoolManager's public methods.   *)
(* Pages are fetched only where the file has them, so that every Disk       *)
(* Manager call succeeds.                                                   *)

OnDisk(page_id) == page_id.fd \in DOMAIN next_page_no
                   /\ page_id.page_no < next_page_no[page_id.fd]

PinOf(st, page_id) ==
    IF page_id \in DOMAIN st.page_table THEN st.pages[st.page_table[page_id]].pin_count ELSE 0

\* the page a successful fetch_page / new_page took the frame from
Evicted(st, page_id, r) ==
    IF r.ok /\ page_id \notin DOMAIN st.page_table /\ IsBound(st.pages[r.frame_id])
    THEN st.pages[r.frame_id].id
    ELSE NoPageId

fetch_page(page_id) ==
    /\ harness = "bp"
    /\ OnDisk(page_id)
    /\ PinOf(BpState, page_id) < MaxPin
    /\ LET r == bp_fetch_page(BpState, page_id)
       IN /\ Install(r.st)
          /\ ret' = CallEv("fetch_page", page_id, FALSE, r.ok, r.frame_id,
                           Evicted(BpState, page_id, r))
          /\ unpinOrder' = IF r.ok THEN OrderDel(unpinOrder, r.frame_id) ELSE unpinOrder
    /\ UNCHANGED <<harness, written, next_page_no, file_hdr_, inserted, everFull, scan, mtVars>>

unpin_page(page_id, is_dirty) ==
    /\ harness = "bp"
    /\ OnDisk(page_id)
    /\ LET r == bp_unpin_page(BpState, page_id, is_dirty)
       IN /\ Install(r.st)
          /\ ret' = Call("unpin_page", page_id, is_dirty, r.ok, NoFrame)
          /\ unpinOrder' = IF r.ok /\ PinOf(BpState, page_id) = 1
                           THEN OrderAdd(unpinOrder, page_table_[page_id])
                           ELSE unpinOrder
    /\ UNCHANGED <<harness, written, next_page_no, file_hdr_, inserted, everFull, scan, mtVars>>

flush_page(page_id) ==
    /\ harness = "bp"
    /\ OnDisk(page_id)
    /\ LET r == bp_flush_page(BpState, page_id)
       IN /\ Install(r.st)
          /\ ret' = Call("flush_page", page_id, FALSE, r.ok, NoFrame)
    /\ UNCHANGED <<harness, written, next_page_no, file_hdr_, unpinOrder, inserted, everFull, scan, mtVars>>

\* new_page; DiskManager::allocate_page hands out the file's next page_no
\* and the new page reads as zeroes
new_page(fd) ==
    /\ harness = "bp"
    /\ Cardinality(DOMAIN disk) < MaxDiskPages
    /\ LET r == bp_new_page(BpState, fd, next_page_no[fd])
           page_id == [fd |-> fd, page_no |-> next_page_no[fd]]
       IN /\ Install([r.st EXCEPT !.disk = IF r.ok THEN MapPut(@, page_id, ZeroPage) ELSE @])
          /\ next_page_no' = IF r.ok THEN [next_page_no EXCEPT ![fd] = @ + 1]
                             ELSE next_page_no
          /\ ret' = CallEv("new_page", IF r.ok THEN page_id ELSE NoPageId, FALSE, r.ok,
                           r.frame_id, Evicted(BpState, page_id, r))
          /\ unpinOrder' = IF r.ok THEN OrderDel(unpinOrder, r.frame_id) ELSE unpinOrder
    /\ UNCHANGED <<harness, written, file_hdr_, inserted, everFull, scan, mtVars>>

delete_page(page_id) ==
    /\ harness = "bp"
    /\ OnDisk(page_id)
    /\ LET r == bp_delete_page(BpState, page_id)
       IN /\ Install(r.st)
          /\ ret' = Call("delete_page", page_id, FALSE, r.ok, NoFrame)
          /\ unpinOrder' = IF r.ok /\ page_id \in DOMAIN page_table_
                           THEN OrderDel(unpinOrder, page_table_[page_id])
                           ELSE unpinOrder
    /\ UNCHANGED <<harness, written, next_page_no, file_hdr_, inserted, everFull, scan, mtVars>>

flush_all_pages(fd) ==
    /\ harness = "bp"
    /\ Install(bp_flush_all_pages(BpState, fd))
    /\ ret' = Call("flush_all_pages", [fd |-> fd, page_no |-> INVALID_PAGE_ID],
                   FALSE, TRUE, NoFrame)
    /\ UNCHANGED <<harness, written, next_page_no, file_hdr_, unpinOrder, inserted, everFull, scan, mtVars>>

\* the holder of a pin writes the page's bytes (Page::get_data)
write_data(page_id, v) ==
    /\ harness = "bp"
    /\ page_id \in DOMAIN page_table_
    /\ pages_[page_table_[page_id]].pin_count > 0
    /\ pages_' = [pages_ EXCEPT ![page_table_[page_id]].data.slots[0] = v]
    /\ ret' = Call("write_data", page_id, FALSE, TRUE, page_table_[page_id])
    /\ UNCHANGED <<harness, written, page_table_, free_list_, LRUlist_, LRUhash_, disk,
                   next_page_no, file_hdr_, unpinOrder, inserted, everFull, scan, mtVars>>

NextBP ==
    \/ \E p \in PageIds : fetch_page(p)
    \/ \E p \in PageIds, d \in BOOLEAN : unpin_page(p, d)
    \/ \E p \in PageIds : flush_page(p)
    \/ \E fd \in Fds : new_page(fd)
    \/ \E p \in PageIds : delete_page(p)
    \/ \E fd \in Fds : flush_all_pages(fd)
    \/ \E p \in PageIds, v \in Vals : write_data(p, v)

SpecBP == InitBP /\ [][NextBP]_vars

-----------------------------------------------------------------------------
(* Writers: callers of the buffer pool whose writes are followed.  written  *)
(* holds, for each page a pin holder has written, the contents last written *)
(* and whether the page has been unpinned with is_dirty = true since.  A    *)
(* write whose last pin is given back with is_dirty = false was never       *)
(* declared to the pool and is forgotten.                                   *)

\* the holder of a pin writes the page's bytes (Page::get_data)
writer_write_data(page_id, v) ==
    /\ harness = "bp"
    /\ page_id \in DOMAIN page_table_
    /\ pages_[page_table_[page_id]].pin_count > 0
    /\ pages_' = [pages_ EXCEPT ![page_table_[page_id]].data.slots[0] = v]
    /\ written' = MapPut(written, page_id, [data |-> v, unpinned |-> FALSE])
    /\ ret' = Call("write_data", page_id, FALSE, TRUE, page_table_[page_id])
    /\ UNCHANGED <<harness, page_table_, free_list_, LRUlist_, LRUhash_, disk,
                   next_page_no, file_hdr_, unpinOrder, inserted, everFull, scan, mtVars>>

writer_unpin_page(page_id, is_dirty) ==
    /\ harness = "bp"
    /\ OnDisk(page_id)
    /\ LET r == bp_unpin_page(BpState, page_id, is_dirty)
       IN /\ Install(r.st)
          /\ ret' = Call("unpin_page", page_id, is_dirty, r.ok, NoFrame)
          /\ unpinOrder' = IF r.ok /\ PinOf(BpState, page_id) = 1
                           THEN OrderAdd(unpinOrder, page_table_[page_id])
                           ELSE unpinOrder
          /\ written' = IF ~r.ok \/ page_id \notin DOMAIN written THEN written
                        ELSE IF is_dirty
                             THEN [written EXCEPT ![page_id].unpinned = TRUE]
                        ELSE IF ~written[page_id].unpinned /\ PinOf(BpState, page_id) = 1
                             THEN MapErase(written, page_id)
                        ELSE written
    /\ UNCHANGED <<harness, next_page_no, file_hdr_, inserted, everFull, scan, mtVars>>

\* the pages the writers write: those of one file; the other file's pages
\* are fetched, created, unpinned dirty, flushed and deleted but keep their bytes
WriterPages == {p \in PageIds : \A fd \in Fds : p.fd <= fd}

NextWriters ==
    \/ \E p \in PageIds : fetch_page(p)
    \/ \E p \in PageIds, d \in BOOLEAN : writer_unpin_page(p, d)
    \/ \E p \in PageIds : flush_page(p)
    \/ \E fd \in Fds : new_page(fd)
    \/ \E p \in PageIds : delete_page(p)
    \/ \E fd \in Fds : flush_all_pages(fd)
    \/ \E p \in WriterPages, v \in Vals : writer_write_data(p, v)

SpecWriters == InitBP /\ [][NextWriters]_vars

-----------------------------------------------------------------------------
(* Callers of the buffer pool on a Disk Manager whose allocate_page can     *)
(* fail: fetch_page, unpin_page and new_page, and new_page calls in which   *)
(* allocate_page returns INVALID_PAGE_ID.                                   *)

\* new_page during which DiskManager::allocate_page returns INVALID_PAGE_ID
new_page_allocate_fails(fd) ==
    /\ harness = "bp"
    /\ LET r == bp_new_page(BpState, fd, INVALID_PAGE_ID)
       IN /\ Install(r.st)
          /\ ret' = Call("new_page", NoPageId, FALSE, r.ok, r.frame_id)
          /\ unpinOrder' = IF free_list_ = <<>> /\ LRUlist_ # <<>>
                           THEN OrderDel(unpinOrder, LRUlist_[Len(LRUlist_)])
                           ELSE unpinOrder
    /\ UNCHANGED <<harness, written, next_page_no, file_hdr_, inserted, everFull, scan, mtVars>>

NextFailingAlloc ==
    \/ \E p \in PageIds : fetch_page(p)
    \/ \E p \in PageIds, d \in BOOLEAN : unpin_page(p, d)
    \/ \E fd \in Fds : new_page(fd)
    \/ \E fd \in Fds : new_page_allocate_fails(fd)

SpecFailingAlloc == InitBP /\ [][NextFailingAlloc]_vars

-----------------------------------------------------------------------------
(* Threads calling the buffer pool manager.  A method body runs from its    *)
(* scoped_lock to its return; fetch_page on a page that is not in the pool  *)
(* is two steps, find_victim_page and the rest, with the thread holding     *)
(* latch_ in between.                                                       *)

InitThreads ==
    /\ harness = "threads"
    /\ InitCommon
    /\ pages_ = [f \in Frames |-> NewPage]
    /\ page_table_ = EmptyMap
    /\ free_list_ = [i \in 1..PoolSize |-> i - 1]
    /\ disk = [p \in {q \in PageIds : q.page_no = 0} |-> ZeroPage]
    /\ next_page_no = [fd \in Fds |-> 1]
    /\ file_hdr_ = EmptyMap

\* thread t is about to call a method
Calling(t) ==
    /\ harness = "threads"
    /\ calls[t] = NoCall
    /\ scoped_lock(latch_)

\* fetch_page up to find_victim_page (lines 90-109)
thread_fetch_page(t, page_id) ==
    /\ Calling(t)
    /\ OnDisk(page_id)
    /\ PinOf(BpState, page_id) < MaxPin
    /\ IF page_id \in DOMAIN page_table_
       THEN LET r == bp_fetch_page(BpState, page_id)
            IN /\ Install(r.st)
               /\ ret' = Call("fetch_page", page_id, FALSE, TRUE, r.frame_id)
               /\ pinned' = [pinned EXCEPT ![page_id] = @ + 1]
               /\ UNCHANGED <<latch_, calls>>
       ELSE LET fv == find_victim_page(BpState)
            IN /\ Install(fv.st)
               /\ ret' = Call("fetch_page", page_id, FALSE, fv.ok, fv.frame_id)
               /\ IF fv.ok
                  THEN /\ latch_' = t
                       /\ calls' = [calls EXCEPT ![t] = [page_id |-> page_id,
                                                         victim_frame_id |-> fv.frame_id]]
                  ELSE UNCHANGED <<latch_, calls>>
               /\ UNCHANGED pinned
    /\ UNCHANGED <<harness, written, next_page_no, file_hdr_, unpinOrder, inserted, everFull, scan>>

\* fetch_page from update_page to its return (lines 111-130)
thread_fetch_page_returns(t) ==
    /\ harness = "threads"
    /\ calls[t] # NoCall
    /\ Install(fetch_page_load(BpState, calls[t].victim_frame_id, calls[t].page_id))
    /\ ret' = Call("fetch_page_returns", calls[t].page_id, FALSE, TRUE,
                   calls[t].victim_frame_id)
    /\ pinned' = [pinned EXCEPT ![calls[t].page_id] = 1]
    /\ latch_' = NoThread
    /\ calls' = [calls EXCEPT ![t] = NoCall]
    /\ UNCHANGED <<harness, written, next_page_no, file_hdr_, unpinOrder, inserted, everFull, scan>>

thread_unpin_page(t, page_id, is_dirty) ==
    /\ Calling(t)
    /\ OnDisk(page_id)
    /\ LET r == bp_unpin_page(BpState, page_id, is_dirty)
       IN /\ Install(r.st)
          /\ ret' = Call("unpin_page", page_id, is_dirty, r.ok, NoFrame)
          /\ pinned' = IF r.ok THEN [pinned EXCEPT ![page_id] = @ - 1] ELSE pinned
    /\ UNCHANGED <<harness, written, next_page_no, file_hdr_, unpinOrder, inserted, everFull, scan,
                   latch_, calls>>

thread_flush_page(t, page_id) ==
    /\ Calling(t)
    /\ OnDisk(page_id)
    /\ LET r == bp_flush_page(BpState, page_id)
       IN /\ Install(r.st)
          /\ ret' = Call("flush_page", page_id, FALSE, r.ok, NoFrame)
    /\ UNCHANGED <<harness, written, next_page_no, file_hdr_, unpinOrder, inserted, everFull, scan,
                   mtVars>>

thread_new_page(t, fd) ==
    /\ Calling(t)
    /\ Cardinality(DOMAIN disk) < MaxDiskPages
    /\ LET r == bp_new_page(BpState, fd, next_page_no[fd])
           page_id == [fd |-> fd, page_no |-> next_page_no[fd]]
       IN /\ Install([r.st EXCEPT !.disk = IF r.ok THEN MapPut(@, page_id, ZeroPage) ELSE @])
          /\ next_page_no' = IF r.ok THEN [next_page_no EXCEPT ![fd] = @ + 1]
                             ELSE next_page_no
          /\ ret' = Call("new_page", IF r.ok THEN page_id ELSE NoPageId, FALSE, r.ok,
                         r.frame_id)
          /\ pinned' = IF r.ok THEN [pinned EXCEPT ![page_id] = 1] ELSE pinned
    /\ UNCHANGED <<harness, written, file_hdr_, unpinOrder, inserted, everFull, scan, latch_, calls>>

thread_delete_page(t, page_id) ==
    /\ Calling(t)
    /\ OnDisk(page_id)
    /\ LET r == bp_delete_page(BpState, page_id)
       IN /\ Install(r.st)
          /\ ret' = Call("delete_page", page_id, FALSE, r.ok, NoFrame)
    /\ UNCHANGED <<harness, written, next_page_no, file_hdr_, unpinOrder, inserted, everFull, scan,
                   mtVars>>

NextThreads ==
    \E t \in Threads :
        \/ \E p \in PageIds : thread_fetch_page(t, p)
        \/ thread_fetch_page_returns(t)
        \/ \E p \in PageIds, d \in BOOLEAN : thread_unpin_page(t, p, d)
        \/ \E p \in PageIds : thread_flush_page(t, p)
        \/ \E fd \in Fds : thread_new_page(t, fd)
        \/ \E p \in PageIds : thread_delete_page(t, p)

SpecThreads == InitThreads /\ [][NextThreads]_vars

-----------------------------------------------------------------------------
(* RmFileHandle on top of the buffer pool.  rs is the state a record        *)
(* operation works on: the buffer pool st, file_hdr_ hdr and the Disk       *)
(* Manager's allocation counters alloc.  Every operation returns the error  *)
(* it throws ("" for none) and the state it leaves.                         *)

\* frames of the pool the record driver uses
RmPoolSize == 1
\* record slots the record driver lets a file grow to, over all its data pages
MaxFileSlots == 2

RmState == [st |-> BpState, hdr |-> file_hdr_, alloc |-> next_page_no]

Rid(page_no, slot_no) == [page_no |-> page_no, slot_no |-> slot_no]

NoRid == Rid(RM_NO_PAGE, -1)

Bitmap_is_set(bitmap, pos) == bitmap[pos]

\* first position in [0, max_n) whose bit equals bit, else max_n
Bitmap_first_bit(bit, bitmap, max_n) ==
    IF \E i \in 0..(max_n - 1) : bitmap[i] = bit
    THEN CHOOSE i \in 0..(max_n - 1) :
             bitmap[i] = bit /\ \A j \in 0..(i - 1) : bitmap[j] # bit
    ELSE max_n

mark_dirty(st, frame) == [st EXCEPT !.pages[frame].is_dirty = TRUE]

\* buffer_pool_manager_->unpin_page(ph.page->get_page_id(), is_dirty)
rm_unpin(rs, frame, is_dirty) ==
    [rs EXCEPT !.st = bp_unpin_page(rs.st, rs.st.pages[frame].id, is_dirty).st]

\* fetch_page_handle once fetch_page has returned r
fetch_page_handle_of(rs, page_no, r) ==
    IF ~r.ok
    THEN [err |-> "FetchFailed", frame |-> NoFrame, rs |-> [rs EXCEPT !.st = r.st]]
    ELSE [err |-> "", frame |-> r.frame_id, rs |-> [rs EXCEPT !.st = r.st]]

\* fetch_page_handle: [err, frame, rs]
rm_fetch_page_handle(rs, page_no) ==
    IF page_no <= RM_FILE_HDR_PAGE \/ page_no >= rs.hdr.num_pages
    THEN [err |-> "PageNotExist", frame |-> NoFrame, rs |-> rs]
    ELSE fetch_page_handle_of(rs, page_no,
                              bp_fetch_page(rs.st, [fd |-> fd_, page_no |-> page_no]))

\* create_new_page_handle once new_page has returned r with page number new_no
create_new_page_handle_of(rs, new_no, r) ==
    IF ~r.ok
    THEN [err |-> "NewPageFailed", frame |-> NoFrame, rs |-> [rs EXCEPT !.st = r.st]]
    ELSE LET s1 == [r.st EXCEPT
                      !.disk = MapPut(@, [fd |-> fd_, page_no |-> new_no], ZeroPage),
                      !.pages[r.frame_id].data.num_records = 0,
                      !.pages[r.frame_id].data.next_free_page_no = RM_NO_PAGE,
                      !.pages[r.frame_id].data.bitmap = [i \in Slots |-> FALSE]]
         IN [err |-> "", frame |-> r.frame_id,
             rs |-> [rs EXCEPT
                       !.st = mark_dirty(s1, r.frame_id),
                       !.alloc[fd_] = new_no + 1,
                       !.hdr.num_pages = IF new_no >= @ THEN new_no + 1 ELSE @]]

\* create_new_page_handle: [err, frame, rs]; DiskManager::allocate_page hands
\* out the file's next page_no and the new page reads as zeroes
rm_create_new_page_handle(rs) ==
    create_new_page_handle_of(rs, rs.alloc[fd_], bp_new_page(rs.st, fd_, rs.alloc[fd_]))

\* create_page_handle: [err, frame, rs]
rm_create_page_handle(rs) ==
    IF rs.hdr.first_free_page_no # RM_NO_PAGE
    THEN rm_fetch_page_handle(rs, rs.hdr.first_free_page_no)
    ELSE rm_create_new_page_handle(rs)

\* mutant: release_page_handle makes the page the head without linking it to
\* the previous head
rm_release_page_handle_noLink(rs, frame) ==
    LET current_page_no == rs.st.pages[frame].id.page_no
    IN [rs EXCEPT !.st = mark_dirty(rs.st, frame),
                  !.hdr.first_free_page_no = current_page_no]

\* release_page_handle: rs
rm_release_page_handle(rs, frame) ==
    LET current_page_no == rs.st.pages[frame].id.page_no
        s1 == [rs.st EXCEPT !.pages[frame].data.next_free_page_no = rs.hdr.first_free_page_no]
    IN [rs EXCEPT !.st = mark_dirty(s1, frame),
                  !.hdr.first_free_page_no = current_page_no]

SlotInRange(rs, slot_no) == slot_no >= 0 /\ slot_no < rs.hdr.num_records_per_page

\* get_record on the page handle ph
get_record_on(rs, rid, ph) ==
    IF ph.err # ""
    THEN [err |-> ph.err, value |-> 0, rs |-> ph.rs]
    ELSE IF ~SlotInRange(rs, rid.slot_no)
    THEN [err |-> "InvalidSlot", value |-> 0, rs |-> rm_unpin(ph.rs, ph.frame, FALSE)]
    ELSE IF ~Bitmap_is_set(ph.rs.st.pages[ph.frame].data.bitmap, rid.slot_no)
    THEN [err |-> "RecordNotFound", value |-> 0, rs |-> rm_unpin(ph.rs, ph.frame, FALSE)]
    ELSE [err |-> "", value |-> ph.rs.st.pages[ph.frame].data.slots[rid.slot_no],
          rs |-> rm_unpin(ph.rs, ph.frame, FALSE)]

\* get_record: [err, value, rs]
rm_get_record(rs, rid) == get_record_on(rs, rid, rm_fetch_page_handle(rs, rid.page_no))

\* insert_record(buf) writing slot slot_no of the page handle ph
insert_record_slot(rs, buf, ph, slot_no) ==
    LET f == ph.frame
        n == rs.hdr.num_records_per_page
        pg == ph.rs.st.pages[f]
    IN IF slot_no = n \/ pg.data.num_records >= n
       THEN [err |-> "NoFreeSlot", rid |-> NoRid, rs |-> rm_unpin(ph.rs, f, FALSE)]
       ELSE
       LET current_page_no == pg.id.page_no
           full == pg.data.num_records + 1 = n
           head == full /\ ph.rs.hdr.first_free_page_no = current_page_no
           hdr2 == IF head
                   THEN [ph.rs.hdr EXCEPT !.first_free_page_no = pg.data.next_free_page_no]
                   ELSE ph.rs.hdr
           s2 == [ph.rs.st EXCEPT !.pages[f].data.slots[slot_no] = buf,
                                  !.pages[f].data.bitmap[slot_no] = TRUE,
                                  !.pages[f].data.num_records = @ + 1,
                                  !.disk = IF head
                                           THEN disk_write_page(@, [fd |-> fd_,
                                                                    page_no |-> RM_FILE_HDR_PAGE],
                                                                hdr2)
                                           ELSE @]
       IN [err |-> "", rid |-> Rid(current_page_no, slot_no),
           rs |-> rm_unpin([ph.rs EXCEPT !.st = mark_dirty(s2, f), !.hdr = hdr2], f, TRUE)]

\* insert_record(buf) on the page handle ph
insert_record_on(rs, buf, ph) ==
    IF ph.err # ""
    THEN [err |-> ph.err, rid |-> NoRid, rs |-> ph.rs]
    ELSE insert_record_slot(rs, buf, ph,
                            Bitmap_first_bit(FALSE, ph.rs.st.pages[ph.frame].data.bitmap,
                                             rs.hdr.num_records_per_page))

\* insert_record(buf): [err, rid, rs]
rm_insert_record(rs, buf) == insert_record_on(rs, buf, rm_create_page_handle(rs))

\* the failure DiskManager::write_page surfaces to its caller
DiskFailure == "DiskFailure"

\* insert_record(buf) writing slot slot_no of the page handle ph when
\* DiskManager::write_page fails on the file header: the exception leaves
\* insert_record at the write_page call
insert_record_slot_throws(rs, buf, ph, slot_no) ==
    LET f == ph.frame
        n == rs.hdr.num_records_per_page
        pg == ph.rs.st.pages[f]
    IN IF slot_no = n \/ pg.data.num_records >= n
       THEN [err |-> "NoFreeSlot", rid |-> NoRid, rs |-> rm_unpin(ph.rs, f, FALSE)]
       ELSE
       LET current_page_no == pg.id.page_no
           full == pg.data.num_records + 1 = n
           head == full /\ ph.rs.hdr.first_free_page_no = current_page_no
           hdr2 == IF head
                   THEN [ph.rs.hdr EXCEPT !.first_free_page_no = pg.data.next_free_page_no]
                   ELSE ph.rs.hdr
           s2 == [ph.rs.st EXCEPT !.pages[f].data.slots[slot_no] = buf,
                                  !.pages[f].data.bitmap[slot_no] = TRUE,
                                  !.pages[f].data.num_records = @ + 1]
           r2 == [ph.rs EXCEPT !.st = mark_dirty(s2, f), !.hdr = hdr2]
       IN IF head
          THEN [err |-> DiskFailure, rid |-> NoRid, rs |-> r2]
          ELSE [err |-> "", rid |-> Rid(current_page_no, slot_no),
                rs |-> rm_unpin(r2, f, TRUE)]

\* insert_record(buf) on the page handle ph when the header write fails
insert_record_on_throws(rs, buf, ph) ==
    IF ph.err # ""
    THEN [err |-> ph.err, rid |-> NoRid, rs |-> ph.rs]
    ELSE insert_record_slot_throws(rs, buf, ph,
                                   Bitmap_first_bit(FALSE, ph.rs.st.pages[ph.frame].data.bitmap,
                                                    rs.hdr.num_records_per_page))

\* insert_record(buf) when DiskManager::write_page fails: [err, rid, rs]
rm_insert_record_throws(rs, buf) == insert_record_on_throws(rs, buf, rm_create_page_handle(rs))

\* mutant: insert_record(rid, buf) counts the record even when the slot was set
insert_record_at_on_alwaysCounts(rs, rid, buf, ph) ==
    IF ph.err # ""
    THEN [err |-> ph.err, rs |-> ph.rs]
    ELSE IF ~SlotInRange(rs, rid.slot_no)
    THEN [err |-> "InvalidSlot", rs |-> rm_unpin(ph.rs, ph.frame, FALSE)]
    ELSE
    LET f == ph.frame
        s1 == [ph.rs.st EXCEPT !.pages[f].data.slots[rid.slot_no] = buf,
                               !.pages[f].data.bitmap[rid.slot_no] = TRUE,
                               !.pages[f].data.num_records = @ + 1]
    IN [err |-> "", rs |-> rm_unpin([ph.rs EXCEPT !.st = mark_dirty(s1, f)], f, TRUE)]

\* insert_record(rid, buf) on the page handle ph
insert_record_at_on(rs, rid, buf, ph) ==
    IF ph.err # ""
    THEN [err |-> ph.err, rs |-> ph.rs]
    ELSE IF ~SlotInRange(rs, rid.slot_no)
    THEN [err |-> "InvalidSlot", rs |-> rm_unpin(ph.rs, ph.frame, FALSE)]
    ELSE
    LET f == ph.frame
        was_set == Bitmap_is_set(ph.rs.st.pages[f].data.bitmap, rid.slot_no)
        s1 == [ph.rs.st EXCEPT !.pages[f].data.slots[rid.slot_no] = buf,
                               !.pages[f].data.bitmap[rid.slot_no] = TRUE,
                               !.pages[f].data.num_records = IF was_set THEN @ ELSE @ + 1]
    IN [err |-> "", rs |-> rm_unpin([ph.rs EXCEPT !.st = mark_dirty(s1, f)], f, TRUE)]

\* insert_record(rid, buf): [err, rs]
rm_insert_record_at(rs, rid, buf) ==
    insert_record_at_on(rs, rid, buf, rm_fetch_page_handle(rs, rid.page_no))

\* mutant: delete_record unpins the page as dirty when the record is not found
delete_record_on_dirtyOnError(rs, rid, ph) ==
    IF ph.err # ""
    THEN [err |-> ph.err, rs |-> ph.rs]
    ELSE IF ~SlotInRange(rs, rid.slot_no)
    THEN [err |-> "InvalidSlot", rs |-> rm_unpin(ph.rs, ph.frame, FALSE)]
    ELSE IF ~Bitmap_is_set(ph.rs.st.pages[ph.frame].data.bitmap, rid.slot_no)
    THEN [err |-> "RecordNotFound", rs |-> rm_unpin(ph.rs, ph.frame, TRUE)]
    ELSE
    LET f == ph.frame
        n == rs.hdr.num_records_per_page
        was_full == ph.rs.st.pages[f].data.num_records = n
        s1 == [ph.rs.st EXCEPT !.pages[f].data.bitmap[rid.slot_no] = FALSE,
                               !.pages[f].data.num_records = @ - 1]
        r1 == [ph.rs EXCEPT !.st = mark_dirty(s1, f)]
    IN [err |-> "",
        rs |-> rm_unpin(IF was_full /\ ph.rs.st.pages[f].data.num_records - 1 < n
                        THEN rm_release_page_handle(r1, f)
                        ELSE r1,
                        f, TRUE)]

\* delete_record on the page handle ph
delete_record_on(rs, rid, ph) ==
    IF ph.err # ""
    THEN [err |-> ph.err, rs |-> ph.rs]
    ELSE IF ~SlotInRange(rs, rid.slot_no)
    THEN [err |-> "InvalidSlot", rs |-> rm_unpin(ph.rs, ph.frame, FALSE)]
    ELSE IF ~Bitmap_is_set(ph.rs.st.pages[ph.frame].data.bitmap, rid.slot_no)
    THEN [err |-> "RecordNotFound", rs |-> rm_unpin(ph.rs, ph.frame, FALSE)]
    ELSE
    LET f == ph.frame
        n == rs.hdr.num_records_per_page
        was_full == ph.rs.st.pages[f].data.num_records = n
        s1 == [ph.rs.st EXCEPT !.pages[f].data.bitmap[rid.slot_no] = FALSE,
                               !.pages[f].data.num_records = @ - 1]
        r1 == [ph.rs EXCEPT !.st = mark_dirty(s1, f)]
    IN [err |-> "",
        rs |-> rm_unpin(IF was_full /\ ph.rs.st.pages[f].data.num_records - 1 < n
                        THEN rm_release_page_handle(r1, f)
                        ELSE r1,
                        f, TRUE)]

\* delete_record: [err, rs]
rm_delete_record(rs, rid) ==
    delete_record_on(rs, rid, rm_fetch_page_handle(rs, rid.page_no))

\* mutant: update_record counts the record as insert_record(rid, buf) does
rm_update_record_countsRecord(rs, rid, buf) ==
    LET ph == rm_fetch_page_handle(rs, rid.page_no)
    IN IF ph.err # ""
       THEN [err |-> ph.err, rs |-> ph.rs]
       ELSE IF ~SlotInRange(rs, rid.slot_no)
       THEN [err |-> "InvalidSlot", rs |-> rm_unpin(ph.rs, ph.frame, FALSE)]
       ELSE IF ~Bitmap_is_set(ph.rs.st.pages[ph.frame].data.bitmap, rid.slot_no)
       THEN [err |-> "RecordNotFound", rs |-> rm_unpin(ph.rs, ph.frame, FALSE)]
       ELSE
       LET f == ph.frame
           s1 == [ph.rs.st EXCEPT !.pages[f].data.slots[rid.slot_no] = buf,
                                  !.pages[f].data.num_records = @ + 1]
       IN [err |-> "", rs |-> rm_unpin([ph.rs EXCEPT !.st = mark_dirty(s1, f)], f, TRUE)]

\* update_record on the page handle ph
update_record_on(rs, rid, buf, ph) ==
    IF ph.err # ""
    THEN [err |-> ph.err, rs |-> ph.rs]
    ELSE IF ~SlotInRange(rs, rid.slot_no)
    THEN [err |-> "InvalidSlot", rs |-> rm_unpin(ph.rs, ph.frame, FALSE)]
    ELSE IF ~Bitmap_is_set(ph.rs.st.pages[ph.frame].data.bitmap, rid.slot_no)
    THEN [err |-> "RecordNotFound", rs |-> rm_unpin(ph.rs, ph.frame, FALSE)]
    ELSE
    LET f == ph.frame
        s1 == [ph.rs.st EXCEPT !.pages[f].data.slots[rid.slot_no] = buf]
    IN [err |-> "", rs |-> rm_unpin([ph.rs EXCEPT !.st = mark_dirty(s1, f)], f, TRUE)]

\* update_record: [err, rs]
rm_update_record(rs, rid, buf) ==
    update_record_on(rs, rid, buf, rm_fetch_page_handle(rs, rid.page_no))

\* Bitmap::next_bit: first position in (curr, max_n) whose bit equals bit,
\* else max_n
Bitmap_next_bit(bit, bitmap, max_n, curr) ==
    IF \E i \in (curr + 1)..(max_n - 1) : bitmap[i] = bit
    THEN CHOOSE i \in (curr + 1)..(max_n - 1) :
             bitmap[i] = bit /\ \A j \in (curr + 1)..(i - 1) : bitmap[j] # bit
    ELSE max_n

RmScan_is_end(rid) == rid.page_no = RM_NO_PAGE

RECURSIVE RmScan_loop(_, _)
RECURSIVE RmScan_on(_, _, _)
RECURSIVE RmScan_found(_, _, _, _)

\* mutant: the next page is searched from the slot reached on this one
RmScan_found_keepsSlot(rs, rid, ph, next_slot) ==
    IF next_slot < rs.hdr.num_records_per_page
    THEN [err |-> "", rid |-> Rid(rid.page_no, next_slot),
          rs |-> rm_unpin(ph.rs, ph.frame, FALSE)]
    ELSE RmScan_loop(rm_unpin(ph.rs, ph.frame, FALSE), Rid(rid.page_no + 1, rid.slot_no))

\* the body of RmScan::next's loop once next_bit has returned next_slot
RmScan_found(rs, rid, ph, next_slot) ==
    IF next_slot < rs.hdr.num_records_per_page
    THEN [err |-> "", rid |-> Rid(rid.page_no, next_slot),
          rs |-> rm_unpin(ph.rs, ph.frame, FALSE)]
    ELSE RmScan_loop(rm_unpin(ph.rs, ph.frame, FALSE), Rid(rid.page_no + 1, -1))

\* the body of RmScan::next's loop on the page handle ph
RmScan_on(rs, rid, ph) ==
    IF ph.err # ""
    THEN [err |-> ph.err, rid |-> rid, rs |-> ph.rs]
    ELSE RmScan_found(rs, rid, ph,
                      Bitmap_next_bit(TRUE, ph.rs.st.pages[ph.frame].data.bitmap,
                                      rs.hdr.num_records_per_page, rid.slot_no))

\* the while loop of RmScan::next with rid_ = rid: [err, rid, rs]
RmScan_loop(rs, rid) ==
    IF rid.page_no < rs.hdr.num_pages /\ rid.page_no >= RM_FIRST_RECORD_PAGE
    THEN RmScan_on(rs, rid, rm_fetch_page_handle(rs, rid.page_no))
    ELSE [err |-> "", rid |-> Rid(RM_NO_PAGE, -1), rs |-> rs]

\* RmScan::next with rid_ = rid: [err, rid, rs]
RmScan_next(rs, rid) ==
    IF RmScan_is_end(rid)
    THEN [err |-> "", rid |-> rid, rs |-> rs]
    ELSE RmScan_loop(rs, rid)

\* RmScan::RmScan(file_handle): [err, rid, rs]
RmScan_RmScan(rs) == RmScan_next(rs, Rid(RM_FIRST_RECORD_PAGE, -1))

-----------------------------------------------------------------------------
(* The record driver: one thread calling RmFileHandle's record operations   *)
(* on a freshly created file.                                               *)

\* RmManager::create_file / open_file: the header page only, no data page;
\* the record size given to create_file decides num_records_per_page
InitRM ==
    /\ harness = "rm"
    /\ InitCommon
    /\ pages_ = [f \in 0..(RmPoolSize - 1) |-> NewPage]
    /\ page_table_ = EmptyMap
    /\ free_list_ = [i \in 1..RmPoolSize |-> i - 1]
    /\ \E n \in 1..SlotsPerPage :
         /\ file_hdr_ = [num_pages |-> 1, first_free_page_no |-> RM_NO_PAGE,
                         num_records_per_page |-> n]
         /\ disk = [p \in {[fd |-> fd_, page_no |-> RM_FILE_HDR_PAGE]} |->
                      [num_pages |-> 1, first_free_page_no |-> RM_NO_PAGE,
                       num_records_per_page |-> n]]
    /\ next_page_no = [fd \in {fd_} |-> 1]

DataPageId(page_no) == [fd |-> fd_, page_no |-> page_no]

\* the content of a data page as the next fetch_page of it sees it: the frame
\* holding it, else its disk image
PageImage(st, page_id) ==
    IF page_id \in DOMAIN st.page_table
    THEN st.pages[st.page_table[page_id]].data
    ELSE disk_read_page(st.disk, page_id)

DataPages(rs) == {DataPageId(n) : n \in RM_FIRST_RECORD_PAGE..(rs.hdr.num_pages - 1)}

\* history update: the data pages that are full when a call returns
NoteFull(rs) ==
    everFull' = everFull \cup
        {p.page_no : p \in {q \in DataPages(rs) :
            PageImage(rs.st, q).num_records = rs.hdr.num_records_per_page}}

RmInstall(rs) ==
    /\ Install(rs.st)
    /\ file_hdr_' = rs.hdr
    /\ next_page_no' = rs.alloc

\* what the caller of a record operation observes: the exception thrown
\* (err, "" = none) or else the operation, the Rid it read or wrote and the
\* value get_record returned
RmCall(op, rid, buf, err, value) ==
    IF err = ""
    THEN [op |-> op, err |-> err, rid |-> rid, value |-> value]
    ELSE [op |-> "throw", err |-> err, rid |-> NoRid, value |-> 0]

\* the Rids the driver passes: every slot of every data page the file can
\* come to hold (the page may not exist yet, the slot may be at or above the
\* file's num_records_per_page)
DriverRids == [page_no : 1..MaxFileSlots, slot_no : 0..(SlotsPerPage - 1)]

\* get_record has returned r
get_record_returns(rid, r) ==
    /\ RmInstall(r.rs)
    /\ NoteFull(r.rs)
    /\ ret' = RmCall("get_record", rid, 0, r.err, r.value)
    /\ UNCHANGED inserted

get_record(rid) ==
    /\ harness = "rm"
    /\ get_record_returns(rid, rm_get_record(RmState, rid))
    /\ UNCHANGED <<harness, written, unpinOrder, scan, mtVars>>

\* insert_record(buf) has returned r: r.rid now holds buf
insert_record_returns(buf, r) ==
    /\ RmInstall(r.rs)
    /\ NoteFull(r.rs)
    /\ ret' = RmCall("insert_record", r.rid, buf, r.err, 0)
    /\ inserted' = IF r.err = "" THEN MapPut(inserted, r.rid, buf) ELSE inserted

insert_record(buf) ==
    /\ harness = "rm"
    /\ \/ file_hdr_.first_free_page_no # RM_NO_PAGE
       \/ file_hdr_.num_pages * file_hdr_.num_records_per_page <= MaxFileSlots
    /\ insert_record_returns(buf, rm_insert_record(RmState, buf))
    /\ UNCHANGED <<harness, written, unpinOrder, scan, mtVars>>

\* an operation naming rid has returned r: rid no longer holds what
\* insert_record(buf) put there
rid_call_returns(op, rid, buf, r) ==
    /\ RmInstall(r.rs)
    /\ NoteFull(r.rs)
    /\ ret' = RmCall(op, rid, buf, r.err, 0)
    /\ inserted' = IF r.err = "" THEN MapErase(inserted, rid) ELSE inserted

insert_record_at(rid, buf) ==
    /\ harness = "rm"
    /\ rid_call_returns("insert_record_at", rid, buf, rm_insert_record_at(RmState, rid, buf))
    /\ UNCHANGED <<harness, written, unpinOrder, scan, mtVars>>

delete_record(rid) ==
    /\ harness = "rm"
    /\ rid_call_returns("delete_record", rid, 0, rm_delete_record(RmState, rid))
    /\ UNCHANGED <<harness, written, unpinOrder, scan, mtVars>>

update_record(rid, buf) ==
    /\ harness = "rm"
    /\ rid_call_returns("update_record", rid, buf, rm_update_record(RmState, rid, buf))
    /\ UNCHANGED <<harness, written, unpinOrder, scan, mtVars>>

NextRM ==
    \/ \E rid \in DriverRids : get_record(rid)
    \/ \E buf \in Vals : insert_record(buf)
    \/ \E rid \in DriverRids, buf \in Vals : insert_record_at(rid, buf)
    \/ \E rid \in DriverRids : delete_record(rid)
    \/ \E rid \in DriverRids, buf \in Vals : update_record(rid, buf)

SpecRM == InitRM /\ [][NextRM]_vars

-----------------------------------------------------------------------------
(* A caller that only inserts: consecutive insert_record(buf) calls on a    *)
(* freshly created file whose pages hold ScenarioRecordsPerPage records.    *)

ScenarioRecordsPerPage == 4

\* insert_record(buf) calls the inserting caller makes
MaxInserts == 6

InitInserts ==
    /\ harness = "inserts"
    /\ InitCommon
    /\ pages_ = [f \in 0..(RmPoolSize - 1) |-> NewPage]
    /\ page_table_ = EmptyMap
    /\ free_list_ = [i \in 1..RmPoolSize |-> i - 1]
    /\ file_hdr_ = [num_pages |-> 1, first_free_page_no |-> RM_NO_PAGE,
                    num_records_per_page |-> ScenarioRecordsPerPage]
    /\ disk = [p \in {[fd |-> fd_, page_no |-> RM_FILE_HDR_PAGE]} |->
                 [num_pages |-> 1, first_free_page_no |-> RM_NO_PAGE,
                  num_records_per_page |-> ScenarioRecordsPerPage]]
    /\ next_page_no = [fd \in {fd_} |-> 1]

\* insert_record(buf) calls made so far
CallsMade == IF ret.op = "init" THEN 0 ELSE ret.calls

\* the next insert_record(buf) has returned r
next_insert_returns(buf, r) ==
    /\ RmInstall(r.rs)
    /\ NoteFull(r.rs)
    /\ ret' = [op |-> "insert_record", err |-> r.err, rid |-> r.rid, value |-> 0,
               calls |-> CallsMade + 1]
    /\ inserted' = IF r.err = "" THEN MapPut(inserted, r.rid, buf) ELSE inserted

next_insert(buf) ==
    /\ harness = "inserts"
    /\ CallsMade < MaxInserts
    /\ next_insert_returns(buf, rm_insert_record(RmState, buf))
    /\ UNCHANGED <<harness, written, unpinOrder, scan, mtVars>>

NextInserts == \E buf \in Vals : next_insert(buf)

SpecInserts == InitInserts /\ [][NextInserts]_vars

-----------------------------------------------------------------------------
(* A scanning caller: insert_record and delete_record calls, then a scan   *)
(* of the file, for (RmScan scan(fh); !scan.is_end(); scan.next())     *)
(* reading scan.rid(), and next() again at the end.  Nothing is inserted or *)
(* deleted once the scan is open.                                           *)

\* data pages the scanning caller lets the file grow to
MaxScanPages == 2

\* insert_record(buf) of the scanning caller
scan_insert_record(buf) ==
    /\ harness = "rm"
    /\ ~scan.open
    /\ \/ file_hdr_.first_free_page_no # RM_NO_PAGE
       \/ file_hdr_.num_pages <= MaxScanPages
    /\ insert_record_returns(buf, rm_insert_record(RmState, buf))
    /\ UNCHANGED <<harness, written, unpinOrder, scan, mtVars>>

\* the cursor has moved to r.rid: a rid() the caller reads unless is_end()
scan_returns(op, r) ==
    /\ RmInstall(r.rs)
    /\ ret' = RmCall(op, r.rid, 0, r.err, 0)
    /\ scan' = [open |-> TRUE, rid_ |-> r.rid,
                visited |-> IF r.err # "" \/ RmScan_is_end(r.rid)
                            THEN scan.visited
                            ELSE Append(scan.visited, r.rid)]
    /\ UNCHANGED <<harness, written, unpinOrder, inserted, everFull, mtVars>>

\* RmScan scan(file_handle)
RmScan ==
    /\ harness = "rm"
    /\ ~scan.open
    /\ scan_returns("RmScan", RmScan_RmScan(RmState))

\* scan.next()
next ==
    /\ harness = "rm"
    /\ scan.open
    /\ scan_returns("next", RmScan_next(RmState, scan.rid_))

\* the scanning caller's records are all alike (a scan reads no slot)
ScanVals == {0}

NextScan ==
    \/ \E buf \in ScanVals : scan_insert_record(buf)
    \/ ~scan.open /\ \E rid \in DriverRids, buf \in ScanVals : insert_record_at(rid, buf)
    \/ ~scan.open /\ \E rid \in DriverRids : delete_record(rid)
    \/ RmScan
    \/ next

SpecScan == InitRM /\ [][NextScan]_vars

-----------------------------------------------------------------------------
(* A caller that also passes Rids outside the file: the header page, a page *)
(* past the last one, a negative slot, a slot at or above                   *)
(* num_records_per_page.                                                    *)

AnyRids == [page_no : RM_FILE_HDR_PAGE..MaxFileSlots, slot_no : (-1)..SlotsPerPage]

NextAnyRid ==
    \/ \E buf \in Vals : insert_record(buf)
    \/ \E rid \in AnyRids : get_record(rid)
    \/ \E rid \in AnyRids : delete_record(rid)
    \/ \E rid \in AnyRids, buf \in Vals : update_record(rid, buf)

SpecAnyRid == InitRM /\ [][NextAnyRid]_vars

-----------------------------------------------------------------------------
(* A caller on a disk that can fail: the record operations, a scan          *)
(* advancing between them, and insert_record(buf) calls during which the    *)
(* Disk Manager fails to write the file header.                             *)

\* insert_record(buf) during which DiskManager::write_page fails (the disk
\* fails while no page is pinned, which bounds the pin counts)
insert_record_disk_failure(buf) ==
    /\ harness = "rm"
    /\ \A f \in DOMAIN pages_ : pages_[f].pin_count = 0
    /\ LET r == rm_insert_record_throws(RmState, buf)
       IN /\ r.err = DiskFailure
          /\ insert_record_returns(buf, r)
    /\ UNCHANGED <<harness, written, unpinOrder, scan, mtVars>>

NextFailingDisk ==
    \/ \E buf \in ScanVals : insert_record(buf)
    \/ \E buf \in ScanVals : insert_record_disk_failure(buf)
    \/ \E rid \in DriverRids : get_record(rid)
    \/ \E rid \in DriverRids, buf \in ScanVals : insert_record_at(rid, buf)
    \/ \E rid \in DriverRids : delete_record(rid)
    \/ \E rid \in DriverRids, buf \in ScanVals : update_record(rid, buf)
    \/ RmScan
    \/ next

SpecFailingDisk == InitRM /\ [][NextFailingDisk]_vars

-----------------------------------------------------------------------------
(* Threads on one RmFileHandle.  The handle has no lock of its own: only    *)
(* the buffer pool calls inside a record operation run under latch_.  Calls *)
(* that overlap no other call (insert_record, insert_record(rid, buf),      *)
(* delete_record) bring the file to some state; then each thread calls      *)
(* insert_record(buf) once.  That call is two steps: up to the slot_no read *)
(* from the bitmap (lines 65-68), and from the sanity check to the return   *)
(* (lines 71-105); calls[t] holds the thread's page handle, slot_no and     *)
(* buf in between and what the call returned afterwards.                    *)

\* no thread has entered insert_record yet
NoThreadCalled == \A t \in Threads : calls[t] = NoCall

\* insert_record(buf), lines 65-68: create_page_handle and Bitmap::first_bit
thread_insert_record(t, buf) ==
    /\ harness = "rm"
    /\ calls[t] = NoCall
    /\ \/ file_hdr_.first_free_page_no # RM_NO_PAGE
       \/ file_hdr_.num_pages * file_hdr_.num_records_per_page <= MaxFileSlots
    /\ LET ph == rm_create_page_handle(RmState)
       IN /\ RmInstall(ph.rs)
          /\ calls' = [calls EXCEPT ![t] =
                         IF ph.err # ""
                         THEN [op |-> "returned", err |-> ph.err, rid |-> NoRid, buf |-> buf]
                         ELSE [op |-> "insert_record", frame |-> ph.frame, buf |-> buf,
                               slot_no |-> Bitmap_first_bit(
                                               FALSE, ph.rs.st.pages[ph.frame].data.bitmap,
                                               file_hdr_.num_records_per_page)]]
          /\ ret' = RmCall("create_page_handle", NoRid, buf, ph.err, 0)
    /\ UNCHANGED <<harness, written, unpinOrder, inserted, everFull, scan, latch_, pinned>>

\* insert_record(buf), lines 71-105, on the page and the header as they are now
thread_insert_record_returns(t) ==
    /\ harness = "rm"
    /\ calls[t] # NoCall
    /\ calls[t].op = "insert_record"
    /\ LET r == insert_record_slot(RmState, calls[t].buf,
                                   [err |-> "", frame |-> calls[t].frame, rs |-> RmState],
                                   calls[t].slot_no)
       IN /\ RmInstall(r.rs)
          /\ NoteFull(r.rs)
          /\ calls' = [calls EXCEPT ![t] = [op |-> "returned", err |-> r.err, rid |-> r.rid,
                                            buf |-> calls[t].buf]]
          /\ ret' = RmCall("insert_record", r.rid, calls[t].buf, r.err, 0)
    /\ UNCHANGED <<harness, written, unpinOrder, inserted, scan, latch_, pinned>>

NextRecordThreads ==
    \/ NoThreadCalled /\ \E buf \in Vals : insert_record(buf)
    \/ NoThreadCalled /\ \E rid \in DriverRids, buf \in Vals : insert_record_at(rid, buf)
    \/ NoThreadCalled /\ \E rid \in DriverRids : delete_record(rid)
    \/ \E t \in Threads, buf \in Vals : thread_insert_record(t, buf)
    \/ \E t \in Threads : thread_insert_record_returns(t)

SpecRecordThreads == InitRM /\ [][NextRecordThreads]_vars

\* the replacer alone and the replacer inside the pool, in one specification
SpecReplacer == (InitLRU \/ InitBP) /\ [][NextLRU \/ NextBP]_vars

-----------------------------------------------------------------------------
(* Buffer pool claims *)

InTable(f) == \E p \in DOMAIN page_table_ : page_table_[p] = f

InReplacer(f) == f \in Range(LRUlist_)

\* C1: every frame is in exactly one of the free list and the page table; it
\* is in the page table iff it is bound to a valid PageId (and then the page
\* table maps that PageId, and no other, to it); it is in the Replacer iff it
\* is in the page table with pin_count 0.
FramePartition ==
    harness = "bp" =>
      /\ Range(free_list_) \subseteq Frames
      /\ Len(free_list_) = Cardinality(Range(free_list_))
      /\ \A p \in DOMAIN page_table_ : page_table_[p] \in Frames
      /\ \A f \in Frames :
           /\ (f \in Range(free_list_)) # InTable(f)
           /\ InTable(f) <=> IsBound(pages_[f])
           /\ InTable(f) => {p \in DOMAIN page_table_ : page_table_[p] = f} = {pages_[f].id}
           /\ InReplacer(f) <=> (InTable(f) /\ pages_[f].pin_count = 0)
           /\ (f \in DOMAIN LRUhash_) <=> InReplacer(f)

\* a delete_page has put a frame back while another page waits in the Replacer
FramePartitionWitness ==
    /\ harness = "bp"
    /\ ret.op = "delete_page" /\ ret.ok
    /\ free_list_ # <<>>
    /\ LRUlist_ # <<>>
    /\ \E f \in Frames : IsBound(pages_[f]) /\ pages_[f].is_dirty

\* C2: a frame with pin_count > 0 keeps its PageId and its page table entry
\* across every call, and the frame a fetch_page miss or a new_page takes over
\* had pin_count 0.
PinnedNeverEvicted ==
    [][harness = "bp" =>
        /\ \A f \in Frames :
             pages_[f].pin_count > 0 =>
               /\ pages_'[f].id = pages_[f].id
               /\ pages_[f].id \in DOMAIN page_table_'
               /\ page_table_'[pages_[f].id] = f
               /\ f \notin Range(free_list_')
        /\ (/\ ret'.op \in {"fetch_page", "new_page"}
            /\ ret'.ok
            /\ ret'.page_id \notin DOMAIN page_table_)
           => pages_[ret'.frame].pin_count = 0
        /\ (ret'.op = "delete_page" /\ ret'.page_id \in DOMAIN page_table_
              /\ pages_[page_table_[ret'.page_id]].pin_count > 0)
           => ~ret'.ok
      ]_vars

\* a fetch_page has evicted a page while the other frame stays pinned
PinnedNeverEvictedWitness ==
    /\ harness = "bp"
    /\ ret.op = "fetch_page" /\ ret.ok
    /\ ret.evicted # NoPageId
    /\ \E f \in Frames : f # ret.frame /\ pages_[f].pin_count = MaxPin

Exhausted == free_list_ = <<>> /\ \A f \in Frames : pages_[f].pin_count > 0

\* C3: with the free list empty and every frame pinned, fetch_page of a
\* non-resident page and new_page return null and change nothing; as soon as
\* the pool is not exhausted, fetch_page of a non-resident page succeeds and
\* the page has pin_count 1.
ExhaustionIsNull ==
    [][harness = "bp" =>
        /\ (/\ ret'.op \in {"fetch_page", "new_page"}
            /\ ret'.op = "fetch_page" => ret'.page_id \notin DOMAIN page_table_
            /\ Exhausted)
           => /\ ~ret'.ok
              /\ UNCHANGED <<pages_, page_table_, free_list_, LRUlist_, LRUhash_, disk,
                             next_page_no>>
        /\ (/\ ret'.op = "fetch_page"
            /\ ret'.page_id \notin DOMAIN page_table_
            /\ ~Exhausted)
           => /\ ret'.ok
              /\ ret'.page_id \in DOMAIN page_table_'
              /\ pages_'[page_table_'[ret'.page_id]].pin_count = 1
              /\ pages_'[page_table_'[ret'.page_id]].id = ret'.page_id
      ]_vars

\* a fetch_page has just returned null from an exhausted pool
ExhaustionIsNullWitness ==
    /\ harness = "bp"
    /\ ret.op = "fetch_page" /\ ~ret.ok
    /\ Exhausted

\* C4: unpin_page of a page that is not resident or has pin_count 0 returns
\* false and changes nothing; otherwise it returns true, pin_count drops by
\* exactly 1 and the frame enters the Replacer iff the new pin_count is 0.
UnpinContract ==
    [][(harness = "bp" /\ ret'.op = "unpin_page") =>
        LET p == ret'.page_id
        IN IF p \notin DOMAIN page_table_ \/ pages_[page_table_[p]].pin_count = 0
           THEN /\ ~ret'.ok
                /\ UNCHANGED <<pages_, page_table_, free_list_, LRUlist_, LRUhash_, disk>>
           ELSE LET f == page_table_[p]
                IN /\ ret'.ok
                   /\ pages_'[f].pin_count = pages_[f].pin_count - 1
                   /\ pages_'[f].id = pages_[f].id
                   /\ (f \in Range(LRUlist_')) <=> (pages_'[f].pin_count = 0)
                   /\ Range(LRUlist_') \ {f} = Range(LRUlist_)
                   /\ \A g \in Frames \ {f} : pages_'[g] = pages_[g]
                   /\ UNCHANGED <<page_table_, free_list_, disk>>
      ]_vars

\* unpin_page has just refused a resident page whose pin_count was already 0
UnpinContractWitness ==
    /\ harness = "bp"
    /\ ret.op = "unpin_page" /\ ~ret.ok
    /\ ret.page_id \in DOMAIN page_table_
    /\ \E f \in Frames : pages_[f].pin_count = 1

Writers == {"flush_page", "flush_all_pages", "fetch_page", "new_page", "delete_page"}

\* C5: a successful unpin_page(p, true) leaves the page dirty and no
\* unpin_page clears a dirty flag; a dirty flag goes from true to false only
\* in flush_page, flush_all_pages, fetch_page, new_page or delete_page, and
\* then the Disk Manager holds the contents the frame had.
DirtyDiscipline ==
    [][harness = "bp" =>
        /\ (ret'.op = "unpin_page" /\ ret'.ok /\ ret'.is_dirty)
           => pages_'[page_table_[ret'.page_id]].is_dirty
        /\ ret'.op = "unpin_page"
           => \A f \in Frames : pages_[f].is_dirty => pages_'[f].is_dirty
        /\ \A f \in Frames :
             (pages_[f].is_dirty /\ ~pages_'[f].is_dirty)
             => /\ ret'.op \in Writers
                /\ pages_[f].id \in DOMAIN disk'
                /\ disk'[pages_[f].id] = pages_[f].data
      ]_vars

\* a page left dirty by an earlier unpin_page has been unpinned with
\* is_dirty = false and is still dirty
DirtyDisciplineWitness ==
    /\ harness = "bp"
    /\ ret.op = "unpin_page" /\ ret.ok /\ ~ret.is_dirty
    /\ pages_[page_table_[ret.page_id]].is_dirty
    /\ pages_[page_table_[ret.page_id]].data # disk[ret.page_id]

\* C6: delete_page returns true and changes nothing for a page that is not
\* resident, returns false and changes nothing for a pinned page, and
\* otherwise writes the page back iff dirty, removes it from the page table
\* and the Replacer, resets the frame and appends it to the free list; a
\* delete_page(p) right after a delete_page(p) that returned true returns true.
DeleteContract ==
    [][(harness = "bp" /\ ret'.op = "delete_page") =>
        LET p == ret'.page_id
            same == UNCHANGED <<pages_, page_table_, free_list_, LRUlist_, LRUhash_, disk>>
        IN /\ IF p \notin DOMAIN page_table_
              THEN ret'.ok /\ same
              ELSE LET f == page_table_[p]
                   IN IF pages_[f].pin_count > 0
                      THEN ~ret'.ok /\ same
                      ELSE /\ ret'.ok
                           /\ disk' = IF pages_[f].is_dirty
                                      THEN [disk EXCEPT ![p] = pages_[f].data]
                                      ELSE disk
                           /\ page_table_' = MapErase(page_table_, p)
                           /\ f \notin Range(LRUlist_')
                           /\ f \notin DOMAIN LRUhash_'
                           /\ Range(LRUlist_') = Range(LRUlist_) \ {f}
                           /\ pages_'[f].id.page_no = INVALID_PAGE_ID
                           /\ pages_'[f].pin_count = 0
                           /\ ~pages_'[f].is_dirty
                           /\ free_list_' = Append(free_list_, f)
                           /\ \A g \in Frames \ {f} : pages_'[g] = pages_[g]
           /\ (ret.op = "delete_page" /\ ret.page_id = p /\ ret.ok) => ret'.ok
      ]_vars

\* delete_page has removed a dirty page: its contents are on disk and its
\* frame is the last of the free list
DeleteContractWitness ==
    /\ harness = "bp"
    /\ ret.op = "delete_page" /\ ret.ok
    /\ ret.page_id \notin DOMAIN page_table_
    /\ free_list_ # <<>>
    /\ pages_[free_list_[Len(free_list_)]].id = [ret.page_id EXCEPT !.page_no = INVALID_PAGE_ID]
    /\ disk[ret.page_id].slots[0] # 0

-----------------------------------------------------------------------------
(* Replacer claims *)

NoDuplicates(s) == Len(s) = Cardinality(Range(s))

\* C7: victim() removes and returns the evictable frame that became evictable
\* first (an unpin of a frame that is already evictable does not move it) and
\* returns false and changes nothing when there is none; in a full pool whose
\* frames are all unpinned, a fetch_page miss evicts the page whose pin_count
\* dropped to 0 first.
LRUVictimOrder ==
    [][/\ (harness = "lru" /\ ret'.op = "victim")
          => IF unpinOrder = <<>>
             THEN ~ret'.ok /\ UNCHANGED <<LRUlist_, LRUhash_>>
             ELSE /\ ret'.ok
                  /\ ret'.frame = Head(unpinOrder)
                  /\ Range(LRUlist_') = Range(LRUlist_) \ {ret'.frame}
                  /\ DOMAIN LRUhash_' = (DOMAIN LRUhash_) \ {ret'.frame}
       /\ (/\ harness = "bp"
           /\ ret'.op = "fetch_page"
           /\ ret'.page_id \notin DOMAIN page_table_
           /\ free_list_ = <<>>
           /\ \A f \in Frames : pages_[f].pin_count = 0)
          => /\ ret'.ok
             /\ ret'.frame = Head(unpinOrder)
             /\ ret'.evicted = pages_[Head(unpinOrder)].id
      ]_vars

\* victim() has picked one of several evictable frames
LRUVictimOrderWitness ==
    /\ harness = "lru"
    /\ ret.op = "victim" /\ ret.ok
    /\ Len(LRUlist_) >= 2

\* C8: LRUlist_ holds each frame at most once and the keys of LRUhash_ are the
\* elements of LRUlist_; unpin of an evictable frame and pin of a frame that
\* is not evictable change neither; Size() is the number of evictable frames.
ReplacerStructure ==
    [][harness = "lru" =>
        /\ NoDuplicates(LRUlist_')
        /\ DOMAIN LRUhash_' = Range(LRUlist_')
        /\ Range(LRUlist_') = Range(unpinOrder')
        /\ (ret'.op = "unpin" /\ ret'.frame \in Range(unpinOrder))
           => UNCHANGED <<LRUlist_, LRUhash_>>
        /\ (ret'.op = "pin" /\ ret'.frame \notin Range(unpinOrder))
           => UNCHANGED <<LRUlist_, LRUhash_>>
        /\ ret'.op = "Size" => ret'.frame = Len(unpinOrder)
      ]_vars

\* unpin has been called on a frame that was already evictable: it is not at
\* the MRU end
ReplacerStructureWitness ==
    /\ harness = "lru"
    /\ ret.op = "unpin"
    /\ ret.frame \in Range(LRUlist_)
    /\ LRUlist_[1] # ret.frame

-----------------------------------------------------------------------------
(* Claims about the record file handle.                                     *)

\* C9: a Rid returned by insert_record(buf) reads back as buf through
\* get_record for as long as no delete_record, update_record or
\* insert_record(rid, buf) names that Rid, whatever other records are
\* inserted, deleted or updated and whether or not its page is still in the
\* buffer pool.
RecordRoundTrip ==
    harness = "rm" =>
        \A rid \in DOMAIN inserted :
            LET r == rm_get_record(RmState, rid)
            IN r.err = "" /\ r.value = inserted[rid]

\* two records inserted on different pages, one of them non-zero and on a page
\* that has been evicted from the buffer pool
RecordRoundTripWitness ==
    /\ harness = "rm"
    /\ \E r1, r2 \in DOMAIN inserted :
         /\ r1.page_no # r2.page_no
         /\ inserted[r1] = 1
         /\ DataPageId(r1.page_no) \notin DOMAIN page_table_
         /\ DataPageId(r2.page_no) \in DOMAIN page_table_

\* C10: a successful update_record(rid, buf) makes get_record(rid) return
\* buf, leaves the bitmap, num_records and next_free_page_no of every data
\* page and the file header (first_free_page_no included) as they were, and
\* a second update_record(rid, buf) succeeds and changes no data page and no
\* header field.
UpdateContract ==
    [][(harness = "rm" /\ ret'.op = "update_record") =>
         \A buf \in Vals :
            update_record(ret'.rid, buf) =>
            LET pre == RmState
                post == RmState'
                rid == ret'.rid
                got == rm_get_record(post, rid)
                again == rm_update_record(post, rid, buf)
            IN /\ got.err = "" /\ got.value = buf
               /\ post.hdr = pre.hdr
               /\ DataPages(post) = DataPages(pre)
               /\ \A p \in DataPages(pre) :
                    /\ PageImage(post.st, p).bitmap = PageImage(pre.st, p).bitmap
                    /\ PageImage(post.st, p).num_records = PageImage(pre.st, p).num_records
                    /\ PageImage(post.st, p).next_free_page_no
                         = PageImage(pre.st, p).next_free_page_no
               /\ again.err = ""
               /\ again.rs.hdr = post.hdr
               /\ \A p \in DataPages(post) :
                    PageImage(again.rs.st, p) = PageImage(post.st, p)
      ]_vars

\* update_record has just written 1 to a live record while another record,
\* inserted as 0, is still in the file
UpdateContractWitness ==
    /\ harness = "rm"
    /\ ret.op = "update_record"
    /\ ret.err = ""
    /\ PageImage(BpState, DataPageId(ret.rid.page_no)).slots[ret.rid.slot_no] = 1
    /\ ret.rid \notin DOMAIN inserted
    /\ \E rid \in DOMAIN inserted : inserted[rid] = 0

\* the set bits of a page's slot bitmap in [0, num_records_per_page)
SetBits(rs, data) == {i \in 0..(rs.hdr.num_records_per_page - 1) : Bitmap_is_set(data.bitmap, i)}

\* C11: on every data page of the file, in the buffer pool or on disk,
\* num_records is the number of set bits of the slot bitmap in
\* [0, num_records_per_page), after any sequence of successful or failing
\* record operations.
NumRecordsIsPopcount ==
    harness = "rm" =>
        \A p \in DataPages(RmState) :
            /\ PageImage(BpState, p).num_records
                 = Cardinality(SetBits(RmState, PageImage(BpState, p)))
            /\ disk_read_page(disk, p).num_records
                 = Cardinality(SetBits(RmState, disk_read_page(disk, p)))

\* insert_record(rid, buf) has just filled a page while another page, holding
\* a record, is on disk only
NumRecordsIsPopcountWitness ==
    /\ harness = "rm"
    /\ ret.op = "insert_record_at"
    /\ PageImage(BpState, DataPageId(ret.rid.page_no)).num_records
         = file_hdr_.num_records_per_page
    /\ \E p \in DataPages(RmState) :
         p \notin DOMAIN page_table_ /\ disk_read_page(disk, p).num_records > 0

\* the page numbers met walking next_free_page_no from page_no, seen first
RECURSIVE FreeWalk(_, _, _)
FreeWalk(rs, page_no, seen) ==
    IF page_no \in seen \/ DataPageId(page_no) \notin DataPages(rs)
    THEN seen
    ELSE FreeWalk(rs, PageImage(rs.st, DataPageId(page_no)).next_free_page_no,
                  seen \cup {page_no})

\* the free-page list: first_free_page_no -> next_free_page_no -> ...
FreeListPages(rs) == FreeWalk(rs, rs.hdr.first_free_page_no, {})

\* C12: no page reachable by walking first_free_page_no ->
\* next_free_page_no -> ... is full (num_records < num_records_per_page on
\* every page of the free-page list).
FreeListHoldsNoFullPage ==
    harness = "rm" =>
        \A page_no \in FreeListPages(RmState) :
            PageImage(BpState, DataPageId(page_no)).num_records
              < file_hdr_.num_records_per_page

\* C13: every data page that has a free slot and has been full at some
\* earlier time is reachable by walking first_free_page_no ->
\* next_free_page_no -> ... from the file header.
FreePagesReachable ==
    harness = "rm" =>
        \A page_no \in everFull :
            PageImage(BpState, DataPageId(page_no)).num_records
              < file_hdr_.num_records_per_page
            => page_no \in FreeListPages(RmState)

\* C14: on a fresh file with num_records_per_page = 4 the first four
\* insert_record(buf) calls return (1,0) .. (1,3) and the fifth returns (2,0),
\* after which the file has exactly two data pages and page 1 is not on the
\* free-page list; and insert_record(buf) allocates a page only when the
\* free-page list is empty.
PageAllocationOnInsert ==
    [][(harness = "inserts" /\ ret'.op = "insert_record") =>
         LET k == ret'.calls
             n == file_hdr_.num_records_per_page
         IN /\ ret'.err = ""
            /\ k <= n + 1 => ret'.rid = Rid(1 + ((k - 1) \div n), (k - 1) % n)
            /\ k = n + 1 => /\ file_hdr_'.num_pages = 3
                            /\ 1 \notin FreeListPages(RmState')
            /\ file_hdr_'.num_pages > file_hdr_.num_pages
                 => FreeListPages(RmState) = {}
      ]_vars

\* C15: a successful delete_record on a page that was full makes that page
\* the head of the free-page list (first_free_page_no = p) with
\* next_free_page_no equal to the first_free_page_no before the call; a
\* successful delete_record on a page that was not full leaves
\* first_free_page_no and every page's next_free_page_no unchanged.
DeleteFromFullPage ==
    [][(harness = "rm" /\ ret'.op = "delete_record") =>
         LET pre == RmState
             post == RmState'
             p == ret'.rid.page_no
         IN IF PageImage(pre.st, DataPageId(p)).num_records = pre.hdr.num_records_per_page
            THEN /\ post.hdr.first_free_page_no = p
                 /\ PageImage(post.st, DataPageId(p)).next_free_page_no
                      = pre.hdr.first_free_page_no
            ELSE /\ post.hdr.first_free_page_no = pre.hdr.first_free_page_no
                 /\ \A q \in DataPages(pre) :
                      PageImage(post.st, q).next_free_page_no
                        = PageImage(pre.st, q).next_free_page_no
      ]_vars

\* delete_record has just taken a record from a full page while another page
\* was the head of the free-page list: the page is the head now and links to
\* the previous head
DeleteFromFullPageWitness ==
    /\ harness = "rm"
    /\ ret.op = "delete_record"
    /\ ret.rid.page_no \in everFull
    /\ file_hdr_.first_free_page_no = ret.rid.page_no
    /\ PageImage(BpState, DataPageId(ret.rid.page_no)).next_free_page_no
         \notin {RM_NO_PAGE, ret.rid.page_no}

\* C20: create_page_handle never hands insert_record(buf) a full page, so
\* insert_record(buf) never fails with "Failed to find a free slot in a
\* supposedly free page" after any sequence of insert_record(buf),
\* insert_record(rid, buf), delete_record and update_record calls.
InsertFindsFreeSlot ==
    (harness = "rm" /\ ret.op = "throw") => ret.err # "NoFreeSlot"

\* the Rids whose bitmap bit is set
LiveRids(rs) ==
    {rid \in [page_no : RM_FIRST_RECORD_PAGE..(rs.hdr.num_pages - 1),
              slot_no : 0..(rs.hdr.num_records_per_page - 1)] :
        Bitmap_is_set(PageImage(rs.st, DataPageId(rid.page_no)).bitmap, rid.slot_no)}

\* (page_no, slot_no) order
RidBefore(a, b) ==
    a.page_no < b.page_no \/ (a.page_no = b.page_no /\ a.slot_no < b.slot_no)

\* C17: after any sequence of insert_record and delete_record calls, a scan
\* (construct RmScan, next() until is_end()) shows exactly the Rids whose
\* bitmap bit is set, each once, in strictly ascending (page_no, slot_no)
\* order: at every point of the scan the rid() values shown are the live
\* Rids up to the cursor, in order, and at is_end() they are all the live
\* Rids; when no bit is set the cursor is at the end right after
\* construction; next() at the end changes neither the cursor nor the file.
ScanCoverage ==
    /\ []((harness = "rm" /\ scan.open) =>
            /\ \A i \in 1..(Len(scan.visited) - 1) :
                  RidBefore(scan.visited[i], scan.visited[i + 1])
            /\ Range(scan.visited)
                 = IF RmScan_is_end(scan.rid_)
                   THEN LiveRids(RmState)
                   ELSE {rid \in LiveRids(RmState) : ~RidBefore(scan.rid_, rid)}
            /\ ~RmScan_is_end(scan.rid_) => scan.visited[Len(scan.visited)] = scan.rid_
            /\ LiveRids(RmState) = {} => RmScan_is_end(scan.rid_))
    /\ [][(harness = "rm" /\ scan.open /\ RmScan_is_end(scan.rid_)) =>
            UNCHANGED <<scan, file_hdr_, pages_, page_table_, free_list_, disk>>]_vars

\* a finished scan that has shown two records of one page and a record of a
\* later page
ScanCoverageWitness ==
    /\ harness = "rm"
    /\ scan.open
    /\ RmScan_is_end(scan.rid_)
    /\ ret.op = "next"
    /\ \E i, j, k \in 1..Len(scan.visited) :
         /\ i < j /\ j < k
         /\ scan.visited[i].page_no = scan.visited[j].page_no
         /\ scan.visited[k].page_no > scan.visited[j].page_no

\* the error the record layer's contract gives get_record, delete_record and
\* update_record for rid ("" = none)
RidError(rs, rid) ==
    IF rid.page_no <= RM_FILE_HDR_PAGE \/ rid.page_no >= rs.hdr.num_pages
    THEN "PageNotExist"
    ELSE IF rid.slot_no < 0 \/ rid.slot_no >= rs.hdr.num_records_per_page
    THEN "InvalidSlot"
    ELSE IF ~Bitmap_is_set(PageImage(rs.st, DataPageId(rid.page_no)).bitmap, rid.slot_no)
    THEN "RecordNotFound"
    ELSE ""

\* Page::is_dirty_ of the frame holding page_id, FALSE when no frame holds it
DirtyFlag(st, page_id) ==
    page_id \in DOMAIN st.page_table /\ st.pages[st.page_table[page_id]].is_dirty

\* an operation on rid started in rs and ended as r: it failed as the contract
\* says and, when it failed, left the file as it was
FailsCleanly(rs, rid, r) ==
    /\ r.err = RidError(rs, rid)
    /\ r.err # "" =>
         /\ r.rs.hdr = rs.hdr
         /\ r.rs.alloc = rs.alloc
         /\ DataPages(r.rs) = DataPages(rs)
         /\ \A p \in DataPages(rs) : PageImage(r.rs.st, p) = PageImage(rs.st, p)
         /\ r.rs.st.disk[DataPageId(RM_FILE_HDR_PAGE)] = rs.st.disk[DataPageId(RM_FILE_HDR_PAGE)]
         /\ IF r.err = "PageNotExist"
            THEN r.rs.st = rs.st
            ELSE DirtyFlag(r.rs.st, DataPageId(rid.page_no))
                   = DirtyFlag(rs.st, DataPageId(rid.page_no))

\* C18: get_record, delete_record and update_record fail with PageNotExist,
\* without fetching any page, on a Rid whose page_no is outside
\* (RM_FILE_HDR_PAGE, num_pages), with the invalid-slot error on a slot_no
\* outside [0, num_records_per_page), and with RecordNotFound on an in-range
\* slot whose bit is unset; a failing call leaves the slot bytes, bitmap and
\* num_records of every page, the file header and the page's dirty flag as
\* they were.
ErrorsLeaveFileUnchanged ==
    harness = "rm" =>
        \A rid \in AnyRids :
            /\ FailsCleanly(RmState, rid, rm_get_record(RmState, rid))
            /\ FailsCleanly(RmState, rid, rm_delete_record(RmState, rid))
            /\ \A buf \in Vals :
                 FailsCleanly(RmState, rid, rm_update_record(RmState, rid, buf))

\* a call has just failed with RecordNotFound on a page it read back from
\* disk (clean in the buffer pool), writing a page that holds a record out
ErrorsLeaveFileUnchangedWitness ==
    /\ harness = "rm"
    /\ ret.op = "throw"
    /\ ret.err = "RecordNotFound"
    /\ \E p, q \in DataPages(RmState) :
         /\ p \in DOMAIN page_table_
         /\ ~DirtyFlag(BpState, p)
         /\ q \notin DOMAIN page_table_
         /\ disk_read_page(disk, q).num_records > 0

\* C16: every call of get_record, insert_record(buf), insert_record(rid,
\* buf), delete_record, update_record and RmScan::next, returning normally
\* or failing (PageNotExist, invalid slot, RecordNotFound, buffer exhausted,
\* full page found, Disk Manager failure while writing the file header),
\* releases the pin it took: in a single-threaded run every page's pin_count
\* is 0 between record operations.
PinBalance ==
    harness = "rm" => \A f \in DOMAIN pages_ : pages_[f].pin_count = 0

\* C19: under any interleaving of fetch_page, new_page, unpin_page,
\* flush_page and delete_page calls from several threads, no two frames hold
\* the same PageId and page_table_ names the frame holding it, and the
\* pin_count of a resident page is the number of successful fetch_page and
\* new_page calls on it less the number of unpin_page calls on it that
\* returned true, counted since the page was last bound to its frame.
AtomicBufferPool ==
    harness = "threads" =>
        /\ \A f1, f2 \in DOMAIN pages_ :
              (f1 # f2 /\ IsBound(pages_[f1])) => pages_[f1].id # pages_[f2].id
        /\ \A p \in DOMAIN page_table_ :
              /\ pages_[page_table_[p]].id = p
              /\ pages_[page_table_[p]].pin_count = pinned[p]

\* a thread is between find_victim_page and update_page of a fetch_page that
\* evicts a page, holding latch_, while a page pinned twice is in the pool
AtomicBufferPoolWitness ==
    /\ harness = "threads"
    /\ \E t \in Threads :
         /\ latch_ = t
         /\ calls[t] # NoCall
         /\ IsBound(pages_[calls[t].victim_frame_id])
    /\ \E p \in DOMAIN page_table_ : pinned[p] = 2

\* the walk of next_free_page_no from page_no ends at RM_NO_PAGE without
\* meeting a page of seen or leaving the file
RECURSIVE FreeChainEnds(_, _, _)
FreeChainEnds(rs, page_no, seen) ==
    IF page_no = RM_NO_PAGE
    THEN TRUE
    ELSE IF page_no \in seen \/ DataPageId(page_no) \notin DataPages(rs)
    THEN FALSE
    ELSE FreeChainEnds(rs, PageImage(rs.st, DataPageId(page_no)).next_free_page_no,
                       seen \cup {page_no})

\* C24: after any sequence of insert_record(buf), insert_record(rid, buf),
\* delete_record and update_record calls the free-page list is a finite
\* acyclic chain: the walk first_free_page_no -> next_free_page_no -> ...
\* visits no page twice and ends at RM_NO_PAGE, and no page on it links to
\* itself.
FreeListAcyclic ==
    harness = "rm" =>
        /\ FreeChainEnds(RmState, file_hdr_.first_free_page_no, {})
        /\ \A page_no \in FreeListPages(RmState) :
              PageImage(BpState, DataPageId(page_no)).next_free_page_no # page_no

\* C21: victim, pin, unpin and Size touch LRUlist_ and LRUhash_ only while
\* holding the replacer's latch_: no Size reads the list while another
\* thread is between the two steps of a change, and Size returns the number
\* of frames the replacer holds.
ReplacerLatchGuardsSize ==
    [][(harness = "replacerThreads" /\ ret'.op = "Size") =>
         /\ latch_ = NoThread
         /\ ret'.frame = Cardinality(DOMAIN LRUhash_)
      ]_vars

\* C22: a new_page that returns null, for want of a victim frame or because
\* allocate_page returned INVALID_PAGE_ID after a victim frame was found,
\* leaves the buffer pool as it was before the call: a frame taken from the
\* free list is on the free list, a frame taken from the replacer is in the
\* replacer, still bound with pin_count 0.
FailedNewPageKeepsFrame ==
    [][(harness = "bp" /\ ret'.op = "new_page" /\ ~ret'.ok) =>
         UNCHANGED <<pages_, page_table_, free_list_, LRUlist_, LRUhash_, disk>>
      ]_vars

-----------------------------------------------------------------------------
\* C23: no update is lost across eviction: once a page's contents have been
\* modified while pinned and the page unpinned with is_dirty = true, then
\* after any later fetch_page, new_page, unpin_page, flush_page,
\* flush_all_pages and delete_page calls a fetch_page of that PageId that
\* returns a frame returns one holding the contents last so written.
UpdatesSurviveEviction ==
    harness = "bp" =>
        \A page_id \in DOMAIN written :
            written[page_id].unpinned =>
                LET r == bp_fetch_page(BpState, page_id)
                IN r.ok => r.st.pages[r.frame_id].data.slots[0] = written[page_id].data

\* a fetch_page that took the frame of another page has read back, from the
\* disk, contents that were written and unpinned dirty
UpdatesSurviveEvictionWitness ==
    /\ harness = "bp"
    /\ ret.op = "fetch_page" /\ ret.ok /\ ret.evicted # NoPageId
    /\ ret.page_id \in DOMAIN written
    /\ written[ret.page_id].unpinned
    /\ written[ret.page_id].data = 1
    /\ pages_[ret.frame].data.slots[0] = 1

-----------------------------------------------------------------------------
\* C25: concurrent record operations on one file handle are serialized: for
\* any interleaving of two threads each calling insert_record(buf) on the
\* same RmFileHandle, the two calls return distinct Rids, both records are
\* readable afterwards, and num_records equals the bitmap population count
\* on every page.
ConcurrentInsertsSerialized ==
    (harness = "rm" /\ \A t \in Threads : calls[t] # NoCall /\ calls[t].op = "returned"
                                           /\ calls[t].err = "")
    => /\ \A t, u \in Threads : t # u => calls[t].rid # calls[u].rid
       /\ \A t \in Threads :
             LET g == rm_get_record(RmState, calls[t].rid)
             IN g.err = "" /\ g.value = calls[t].buf
       /\ \A p \in DataPages(RmState) :
             PageImage(BpState, p).num_records
               = Cardinality(SetBits(RmState, PageImage(BpState, p)))

====
